---- MODULE Spec2Model ----
(***************************************************************************)
(* State-machine model of the FlowTracking WhatsApp backend                *)
(* (src/wa-server.js, src/api/chats/new.js).                               *)
(*                                                                         *)
(*  Spec        the per-line session lifecycle: registry `lines`, clients, *)
(*              client event handlers, health probe, POST /restart         *)
(*  SpecRouter  the inbound router recordIncomingChat, the receipt         *)
(*              pipeline and POST /api/chats/new over the row store        *)
(*                                                                         *)
(* Every async handler is split at its awaits: one action per run of       *)
(* synchronous code between two suspension points.                         *)
(***************************************************************************)
EXTENDS Integers, Sequences, FiniteSets, Bags, TLC

NULL == "null"
\* no client (undefined)
NONE == 0

\* ---- bounds -------------------------------------------------------------
MaxClients == 2
MaxAttaching == 1
MaxLookupErrors == 1
MaxMsgs == 2
MaxReplays == 1
MaxQrCalls == 1
\* the 120 polls of POST /lines/:id/qr, scaled down
MaxPolls == 2

\* ---- small value universes ----------------------------------------------
Lines == {"L1"}
Projects == {"P1"}
Contacts == {"c1"}
Phones == {"5491"}
Qrs == {"q1"}
ClientIds == 1..MaxClients
MsgIds == 1..MaxMsgs

\* the reason strings a client hands to its "disconnected" handler, as
\* sequences of characters; NoReason is the empty string, which is also what
\* `reason || ""` makes of a missing reason
NoReason == <<>>
Reasons ==
  {<<"L", "O", "G", "O", "U", "T">>,
   <<"L", "o", "g", "o", "u", "t">>,
   <<"N", "A", "V", "I", "G", "A", "T", "I", "O", "N">>}

VARIABLES
  lines,      \* registry Map line_id -> entry; DOMAIN lines = its keys
  clients,    \* every client built so far
  authDir,    \* session-line-<id> directory exists on disk
  sessions,   \* table whatsapp_sessions; DOMAIN sessions = line_ids with a row
  linesRow,   \* table lines: the project_id column of each line's row
  qrTask,     \* client.on("qr") handler awaiting QRCode.toDataURL
  readyTask,  \* client.on("ready") handler awaiting resolveMyNumber
  discTask,   \* client.on("disconnected") handler position
  probe,      \* probeLine call in flight per line
  restart,    \* POST /lines/:id/restart request in flight per line
  lookupErrs, \* lines-table lookups that may still fail in this run
  sessionUpserts, \* project_id of every payload upserted into whatsapp_sessions
  qrReq,      \* POST /lines/:id/qr request in flight per line
  seenMsgs,   \* Set of message ids already taken by recordIncomingChat
  msgs,       \* the messages the client delivers, by id; ids are numbered
              \* in the order of their first delivery
  delivered,  \* number of deliveries that repeated an earlier message id
  h,          \* recordIncomingChat invocation state per message id
  chats,      \* table analytics_chats
  agenda,     \* table agenda keyed by (project_id, contact)
  leads,      \* table analytics_leads
  convs,      \* table analytics_conversions
  uploads,    \* objects put in the receipts bucket
  capi,       \* events posted to the conversions API
  api,        \* POST /api/chats/new request in flight
  ocr,        \* the ocrFromMedia calls made: message id and mimetype
  storeErrs,  \* store writes that may still fail in this run
  ocrCall,    \* a call of ocrFromMedia on its own: arguments, run and result
  pureCall    \* a call of one of the receipt-text functions on its own

lifeVars == <<lines, clients, authDir, sessions, linesRow, qrTask, readyTask,
              discTask, probe, restart, lookupErrs, sessionUpserts, qrReq>>
regVars == <<lines, clients, authDir, sessions, linesRow, qrTask, readyTask,
             discTask, probe, restart, sessionUpserts, qrReq>>
routerVars == <<seenMsgs, msgs, delivered, h, chats, agenda, leads,
                convs, uploads, capi, api, ocr, storeErrs, ocrCall,
                pureCall>>
vars == <<lines, clients, authDir, sessions, linesRow, qrTask, readyTask,
          discTask, probe, restart, lookupErrs, sessionUpserts, qrReq,
          seenMsgs, msgs, delivered, h, chats, agenda, leads, convs, uploads,
          capi, api, ocr, storeErrs, ocrCall, pureCall>>

\* ---- helpers --------------------------------------------------------------
\* { ...st, ...patch }
Merge(st, patch) ==
  [f \in (DOMAIN st) \cup (DOMAIN patch) |->
      IF f \in DOMAIN patch THEN patch[f] ELSE st[f]]

Has(rec, f) == f \in DOMAIN rec

\* an entry created by `lines.get(line_id) || {}`: every field undefined
EmptyEntry ==
  [client |-> NONE, status |-> NULL, lastQrDataUrl |-> NULL, phone |-> NULL,
   project_id |-> NULL]

EntryOf(reg, l) == IF l \in DOMAIN reg THEN reg[l] ELSE EmptyEntry

\* Map.set / Map.delete
MapSet(map, k, v) == [x \in (DOMAIN map) \cup {k} |-> IF x = k THEN v ELSE map[x]]
MapDelete(map, k) == [x \in (DOMAIN map) \ {k} |-> map[x]]

mapStatusForDb(status) == IF status = "ready" THEN "connected" ELSE status

\* fetchProjectIdForLine: the lines row's project_id, or null on a lookup error
FetchResults(l) ==
  {linesRow[l].project_id} \cup (IF lookupErrs > 0 THEN {NULL} ELSE {})

\* the outcomes of a lookup that is made only if `reached`
LookupsIf(l, reached) ==
  IF reached THEN FetchResults(l) ELSE {linesRow[l].project_id}

Cost(f) == IF f = NULL THEN 1 ELSE 0

\* upsertSessionRow falls through to fetchProjectIdForLine
UpsertReaches(reg, l, patch) ==
  /\ ~(Has(patch, "project_id") /\ patch.project_id # NULL)
  /\ EntryOf(reg, l).project_id = NULL

\* upsertSessionRow(line_id, patch) against registry reg; `fetched` is what
\* fetchProjectIdForLine yields if it is reached
UpsertSessionRow(sess, reg, l, patch, fetched) ==
  LET fromPatch == IF Has(patch, "project_id") THEN patch.project_id ELSE NULL
      fromReg == EntryOf(reg, l).project_id
      project_id == IF fromPatch # NULL THEN fromPatch
                    ELSE IF fromReg # NULL THEN fromReg ELSE fetched
      payload == Merge([project_id |-> project_id], patch)
      old == IF l \in DOMAIN sess
             THEN sess[l]
             ELSE [project_id |-> NULL, wa_status |-> NULL, wa_phone |-> NULL]
  IN IF project_id = NULL THEN sess
     ELSE IF payload.project_id = NULL THEN sess \* NOT NULL column: rejected
     ELSE MapSet(sess, l, Merge(old, payload))

\* the project_id of the payload upsertSessionRow sends, if it sends one
UpsertSent(reg, l, patch, fetched) ==
  LET fromPatch == IF Has(patch, "project_id") THEN patch.project_id ELSE NULL
      fromReg == EntryOf(reg, l).project_id
      project_id == IF fromPatch # NULL THEN fromPatch
                    ELSE IF fromReg # NULL THEN fromReg ELSE fetched
      payload == Merge([project_id |-> project_id], patch)
  IN IF project_id = NULL THEN {} ELSE {payload.project_id}

\* setState(line_id, patch): the registry part
setStateReg(reg, l, patch) == MapSet(reg, l, Merge(EntryOf(reg, l), patch))

\* setState: the `sess` object it builds
setStateSess(next, patch) ==
  LET keys == (IF Has(patch, "status") THEN {"wa_status"} ELSE {})
              \cup (IF Has(patch, "phone") THEN {"wa_phone"} ELSE {})
              \cup (IF next.project_id # NULL THEN {"project_id"} ELSE {})
  IN [k \in keys |->
        CASE k = "wa_status" -> mapStatusForDb(patch.status)
          [] k = "wa_phone" -> patch.phone
          [] OTHER -> next.project_id]

\* setState: the whatsapp_sessions table after it (its update of the lines
\* table writes columns the server never reads back; they are not kept)
setStateSessions(sess, reg, l, patch, fetched) ==
  LET reg2 == setStateReg(reg, l, patch)
      s == setStateSess(reg2[l], patch)
  IN IF DOMAIN s = {} THEN sess ELSE UpsertSessionRow(sess, reg2, l, s, fetched)

\* setState: the payload its upsertSessionRow call sends
setStateSent(reg, l, patch, fetched) ==
  LET reg2 == setStateReg(reg, l, patch)
      s == setStateSess(reg2[l], patch)
  IN IF DOMAIN s = {} THEN {} ELSE UpsertSent(reg2, l, s, fetched)

\* setState reaches fetchProjectIdForLine
setStateReaches(reg, l, patch) ==
  LET reg2 == setStateReg(reg, l, patch)
      s == setStateSess(reg2[l], patch)
  IN DOMAIN s # {} /\ UpsertReaches(reg2, l, s)

\* ---- client lifecycle ---------------------------------------------------
\* stProject and stQr are the project_id and lastQrDataUrl fields of the
\* `state` object attachClient creates, which its handlers close over
NoClient ==
  [line |-> NULL, phase |-> "none", destroyed |-> FALSE, stProject |-> NULL,
   stQr |-> NULL]

FreshIds == {c \in ClientIds : clients[c].phase = "none"}
NextId == CHOOSE c \in FreshIds : \A d \in FreshIds : c <= d

\* buildClient(line_id) followed by the call of attachClient, which suspends
\* in fetchProjectIdForLine
buildClient(cl, c, l) ==
  [cl EXCEPT ![c] = [line |-> l, phase |-> "built", destroyed |-> FALSE,
                     stProject |-> NULL, stQr |-> NULL]]

\* client.destroy() (with pupPage/pupBrowser close) on a possibly absent client
destroyOf(cl, c) == IF c = NONE THEN cl ELSE [cl EXCEPT ![c].destroyed = TRUE]

\* a client that can emit events: initialized, not torn down, still connected
Emitting(c) ==
  /\ clients[c].phase = "live"
  /\ ~clients[c].destroyed
  /\ discTask[c].pc = "idle"

\* a handler's `await setState(line_id, patch)` on the current registry
SetState(l, patch) ==
  \E f \in LookupsIf(l, setStateReaches(lines, l, patch)) :
     /\ lines' = setStateReg(lines, l, patch)
     /\ sessions' = setStateSessions(sessions, lines, l, patch, f)
     /\ sessionUpserts' = sessionUpserts \cup setStateSent(lines, l, patch, f)
     /\ lookupErrs' = lookupErrs - Cost(f)

\* no response sent yet
NoRes == [status |-> NULL, qr |-> NULL]

\* no POST /lines/:id/qr request in flight; res is the last response sent
IdleQrReq ==
  [pc |-> "idle", obj |-> NONE, status |-> NULL, lastQrDataUrl |-> NULL,
   tries |-> 0, calls |-> 0, res |-> NoRes]

\* the `st` a request holds: the `state` object of client c, whose
\* lastQrDataUrl the qr handler of c assigns, with the status it was built with
StateObject(c) == [obj |-> c, status |-> "initializing", lastQrDataUrl |-> NULL]

\* the `st` a request holds: an entry object of the registry, which setState
\* replaces by a new object and never changes
EntryObject(entry) ==
  [obj |-> NONE, status |-> entry.status, lastQrDataUrl |-> entry.lastQrDataUrl]

\* st.lastQrDataUrl as the request reads it now
StQr(req) == IF req.obj # NONE THEN clients[req.obj].stQr ELSE req.lastQrDataUrl

\* the `state` object of client c is in the hands of a request; no other
\* reader of state.lastQrDataUrl exists, so the field is kept only then
HeldByRequest(c) == \E l \in Lines : qrReq[l].obj = c

\* res.json(body): the request is over
Respond(req, body) == [IdleQrReq EXCEPT !.calls = req.calls, !.res = body]

\* POST /lines/:id/qr once ensureClient returned st: the ready answer, or the
\* first test of the wait loop, which answers at once or starts the first sleep
AfterEnsure(req, st) ==
  IF st.status = "ready"
  THEN Respond(req, [status |-> "ready", qr |-> NULL])
  ELSE IF st.lastQrDataUrl # NULL \/ MaxPolls = 0
       THEN Respond(req, [status |-> st.status, qr |-> st.lastQrDataUrl])
       ELSE [req EXCEPT !.pc = "poll", !.obj = st.obj, !.status = st.status,
                        !.lastQrDataUrl = st.lastQrDataUrl, !.tries = 1]

\* ensureClient called by GET /lines/:id/events
HttpEnsure(l) ==
  /\ IF l \in DOMAIN lines
     THEN UNCHANGED clients
     ELSE /\ FreshIds # {}
          /\ Cardinality({c \in ClientIds : clients[c].phase = "built"}) < MaxAttaching
          /\ clients' = buildClient(clients, NextId, l)
  /\ UNCHANGED <<lines, authDir, sessions, linesRow, qrTask, readyTask,
                 discTask, probe, restart, lookupErrs, sessionUpserts, qrReq>>
  /\ UNCHANGED routerVars

\* attachClient after fetchProjectIdForLine resolved: lines.set, setState,
\* handler registration; then its caller's client.initialize(); POST /restart
\* answers { ok: true }, POST /qr goes on with the `state` object returned
AttachFinish(c) ==
  /\ clients[c].phase = "built"
  /\ \E pid \in FetchResults(clients[c].line) :
       LET l == clients[c].line
           state == [client |-> c, status |-> "initializing",
                     lastQrDataUrl |-> NULL, phone |-> NULL, project_id |-> pid]
           reg1 == MapSet(lines, l, state)
           patch == [status |-> "initializing", phone |-> NULL,
                     lastQrDataUrl |-> NULL, project_id |-> pid]
       IN \E f2 \in LookupsIf(l, setStateReaches(reg1, l, patch)) :
            /\ Cost(pid) + Cost(f2) <= lookupErrs
            /\ lookupErrs' = lookupErrs - (Cost(pid) + Cost(f2))
            /\ lines' = setStateReg(reg1, l, patch)
            /\ sessions' = setStateSessions(sessions, reg1, l, patch, f2)
            /\ sessionUpserts' =
                  sessionUpserts \cup setStateSent(reg1, l, patch, f2)
            /\ clients' = [clients EXCEPT ![c].phase = "live",
                                          ![c].stProject = pid]
  /\ restart' = [l \in Lines |->
                   IF restart[l].pc = "attaching" /\ restart[l].client = c
                   THEN [pc |-> "idle", client |-> NONE]
                   ELSE restart[l]]
  /\ qrReq' = [l \in Lines |->
                 IF qrReq[l].pc = "attaching" /\ qrReq[l].obj = c
                 THEN AfterEnsure(qrReq[l], StateObject(c))
                 ELSE qrReq[l]]
  /\ UNCHANGED <<authDir, linesRow, qrTask, readyTask, discTask, probe>>
  /\ UNCHANGED routerVars

\* client.on("loading_screen")
EvLoading(c) ==
  /\ Emitting(c)
  /\ SetState(clients[c].line, [status |-> "loading"])
  /\ UNCHANGED <<clients, authDir, linesRow, qrTask, readyTask, discTask,
                 probe, restart, qrReq>>
  /\ UNCHANGED routerVars

\* client.on("qr"): up to the await of QRCode.toDataURL
EvQr(c) ==
  /\ Emitting(c)
  /\ qrTask[c] = NULL
  /\ \E q \in Qrs : qrTask' = [qrTask EXCEPT ![c] = q]
  /\ UNCHANGED <<lines, clients, authDir, sessions, linesRow, readyTask,
                 discTask, probe, restart, lookupErrs, sessionUpserts, qrReq>>
  /\ UNCHANGED routerVars

\* client.on("qr"): after toDataURL resolved (ok) or rejected (~ok);
\* state.lastQrDataUrl = dataUrl, then setState
QrFinish(c) ==
  /\ qrTask[c] # NULL
  /\ \E ok \in BOOLEAN :
       IF ok
       THEN /\ clients' = [clients EXCEPT ![c].stQr =
                             IF HeldByRequest(c) THEN qrTask[c] ELSE @]
            /\ SetState(clients[c].line,
                        [status |-> "qr", phone |-> NULL,
                         lastQrDataUrl |-> qrTask[c]])
       ELSE UNCHANGED <<clients, lines, sessions, lookupErrs, sessionUpserts>>
  /\ qrTask' = [qrTask EXCEPT ![c] = NULL]
  /\ UNCHANGED <<authDir, linesRow, readyTask, discTask, probe, restart, qrReq>>
  /\ UNCHANGED routerVars

\* client.on("authenticated"); LocalAuth has stored the session by now
EvAuthenticated(c) ==
  /\ Emitting(c)
  /\ SetState(clients[c].line, [status |-> "authenticated"])
  /\ authDir' = [authDir EXCEPT ![clients[c].line] = TRUE]
  /\ UNCHANGED <<clients, linesRow, qrTask, readyTask, discTask, probe,
                 restart, qrReq>>
  /\ UNCHANGED routerVars

\* client.on("ready"): up to the await of resolveMyNumber
EvReady(c) ==
  /\ Emitting(c)
  /\ ~readyTask[c]
  /\ readyTask' = [readyTask EXCEPT ![c] = TRUE]
  /\ UNCHANGED <<lines, clients, authDir, sessions, linesRow, qrTask,
                 discTask, probe, restart, lookupErrs, sessionUpserts, qrReq>>
  /\ UNCHANGED routerVars

\* client.on("ready"): resolveMyNumber returned myPhone (null after 60 tries)
ReadyFinish(c) ==
  /\ readyTask[c]
  /\ \E myPhone \in Phones \cup {NULL} :
       LET l == clients[c].line
           patch == [status |-> "ready", phone |-> myPhone]
           reg2 == setStateReg(lines, l, patch)
           patch2 == [project_id |-> clients[c].stProject,
                      wa_status |-> "connected", wa_phone |-> myPhone]
       IN \E f1 \in LookupsIf(l, setStateReaches(lines, l, patch)),
             f2 \in LookupsIf(l, UpsertReaches(reg2, l, patch2)) :
            /\ Cost(f1) + Cost(f2) <= lookupErrs
            /\ lookupErrs' = lookupErrs - (Cost(f1) + Cost(f2))
            /\ lines' = reg2
            /\ sessions' = UpsertSessionRow(
                              setStateSessions(sessions, lines, l, patch, f1),
                              reg2, l, patch2, f2)
            /\ sessionUpserts' =
                  sessionUpserts \cup setStateSent(lines, l, patch, f1)
                                 \cup UpsertSent(reg2, l, patch2, f2)
  /\ readyTask' = [readyTask EXCEPT ![c] = FALSE]
  /\ UNCHANGED <<clients, authDir, linesRow, qrTask, discTask, probe, restart,
                 qrReq>>
  /\ UNCHANGED routerVars

\* client.on("disconnected"): setState(disconnected) up to the awaits that
\* close the page and the browser and destroy the client
EvDisconnected(c) ==
  /\ Emitting(c)
  /\ SetState(clients[c].line,
              [status |-> "disconnected", phone |-> NULL, lastQrDataUrl |-> NULL])
  /\ \E reason \in Reasons :
       discTask' = [discTask EXCEPT ![c] = [pc |-> "close", reason |-> reason]]
  /\ UNCHANGED <<clients, authDir, linesRow, qrTask, readyTask, probe, restart,
                 qrReq>>
  /\ UNCHANGED routerVars

\* clearLocalAuth(line_id)
clearLocalAuth(dirs, l) == [dirs EXCEPT ![l] = FALSE]

\* String.prototype.toUpperCase over the letters the reasons use
UpperOf(ch) ==
  CASE ch = "l" -> "L" [] ch = "o" -> "O" [] ch = "g" -> "G" [] ch = "u" -> "U"
    [] ch = "t" -> "T" [] OTHER -> ch
toUpperCase(str) == [i \in 1..Len(str) |-> UpperOf(str[i])]

\* String.prototype.includes
includes(str, part) ==
  \E i \in 0..(Len(str) - Len(part)) : SubSeq(str, i + 1, i + Len(part)) = part

\* the same test without the upper-casing
IsLogoutExact(reason) == includes(reason, <<"L", "O", "G", "O", "U", "T">>)

\* String(reason || "").toUpperCase().includes("LOGOUT")
IsLogout(reason) ==
  includes(toUpperCase(reason), <<"L", "O", "G", "O", "U", "T">>)

\* if (…includes("LOGOUT")) clearLocalAuth(line_id)
PurgeOnDisconnect(dirs, l, reason) ==
  IF IsLogout(reason) THEN clearLocalAuth(dirs, l) ELSE dirs

\* client.on("disconnected"): page/browser closed, client destroyed, auth
\* purged on LOGOUT, upsertSessionRow started
DiscTeardown(c) ==
  /\ discTask[c].pc = "close"
  /\ clients' = destroyOf(clients, c)
  /\ authDir' = PurgeOnDisconnect(authDir, clients[c].line, discTask[c].reason)
  /\ discTask' = [discTask EXCEPT ![c].pc = "upsert"]
  /\ UNCHANGED <<lines, sessions, linesRow, qrTask, readyTask, probe, restart,
                 lookupErrs, sessionUpserts, qrReq>>
  /\ UNCHANGED routerVars

\* client.on("disconnected"): upsertSessionRow resolved, lines.delete,
\* setState(restarting), setTimeout scheduled
DiscRestarting(c) ==
  /\ discTask[c].pc = "upsert"
  /\ LET l == clients[c].line
         patch1 == [project_id |-> clients[c].stProject,
                    wa_status |-> "disconnected", wa_phone |-> NULL]
         reg1 == MapDelete(lines, l)
         patch == [status |-> "restarting"]
     IN \E f1 \in LookupsIf(l, UpsertReaches(lines, l, patch1)),
           f2 \in LookupsIf(l, setStateReaches(reg1, l, patch)) :
          /\ Cost(f1) + Cost(f2) <= lookupErrs
          /\ lookupErrs' = lookupErrs - (Cost(f1) + Cost(f2))
          /\ lines' = setStateReg(reg1, l, patch)
          /\ sessions' = setStateSessions(
                            UpsertSessionRow(sessions, lines, l, patch1, f1),
                            reg1, l, patch, f2)
          /\ sessionUpserts' =
                sessionUpserts \cup UpsertSent(lines, l, patch1, f1)
                               \cup setStateSent(reg1, l, patch, f2)
  /\ discTask' = [discTask EXCEPT ![c] = [pc |-> "timer", reason |-> NoReason]]
  /\ UNCHANGED <<clients, authDir, linesRow, qrTask, readyTask, probe, restart,
                 qrReq>>
  /\ UNCHANGED routerVars

\* the setTimeout(…, 1200) callback: buildClient and the call of attachClient
DiscTimer(c) ==
  /\ discTask[c].pc = "timer"
  /\ FreshIds # {}
  /\ clients' = buildClient(clients, NextId, clients[c].line)
  /\ discTask' = [discTask EXCEPT ![c].pc = "done"]
  /\ UNCHANGED <<lines, authDir, sessions, linesRow, qrTask, readyTask, probe,
                 restart, lookupErrs, sessionUpserts, qrReq>>
  /\ UNCHANGED routerVars

\* ---- health probe ---------------------------------------------------------
\* what `await st?.client?.getState().catch(() => null)` can yield:
\* CONNECTED, another state, or null (no client, or getState rejected)
ProbeResults(c) ==
  IF c = NONE THEN {NULL}
  ELSE IF Emitting(c)
       THEN {"CONNECTED", "OTHER", NULL}
       ELSE {"OTHER", NULL}

\* probeLine with the non-connected branch reduced to the status alone
ProbePatchStatusOnly(r) ==
  IF r = "CONNECTED" THEN [status |-> "ready"] ELSE [status |-> "disconnected"]

\* the patch probeLine hands to setState for a getState result
ProbePatch(r) ==
  IF r = "CONNECTED"
  THEN [status |-> "ready"]
  ELSE [status |-> "disconnected", phone |-> NULL, lastQrDataUrl |-> NULL]

\* whatsapp_sessions.update({wa_status}).eq("line_id", line_id)
updateSessionStatus(sess, l, wa_status) ==
  IF l \in DOMAIN sess THEN [sess EXCEPT ![l].wa_status = wa_status] ELSE sess

\* the setInterval(…, 20000) tick: probeLine(line_id, st) up to getState
ProbeTick(l) ==
  /\ l \in DOMAIN lines
  /\ probe[l].pc = "idle"
  /\ probe' = [probe EXCEPT ![l] = [pc |-> "getState", client |-> lines[l].client,
                                    last |-> NULL]]
  /\ UNCHANGED <<lines, clients, authDir, sessions, linesRow, qrTask,
                 readyTask, discTask, restart, lookupErrs, sessionUpserts,
                 qrReq>>
  /\ UNCHANGED routerVars

\* probeLine after getState settled: setState, then the session update
ProbeFinish(l) ==
  /\ probe[l].pc = "getState"
  /\ \E r \in ProbeResults(probe[l].client) :
       LET patch == ProbePatch(r)
       IN \E f \in LookupsIf(l, setStateReaches(lines, l, patch)) :
            /\ lookupErrs' = lookupErrs - Cost(f)
            /\ lines' = setStateReg(lines, l, patch)
            /\ sessions' = updateSessionStatus(
                              setStateSessions(sessions, lines, l, patch, f), l,
                              mapStatusForDb(patch.status))
            /\ sessionUpserts' =
                  sessionUpserts \cup setStateSent(lines, l, patch, f)
            /\ probe' = [probe EXCEPT ![l] = [pc |-> "idle", client |-> NONE,
                                              last |-> r]]
  /\ UNCHANGED <<clients, authDir, linesRow, qrTask, readyTask, discTask,
                 restart, qrReq>>
  /\ UNCHANGED routerVars

\* ---- POST /lines/:lineId/restart ---------------------------------------
\* st = lines.get(lineId), up to the awaits that close and destroy st.client
RestartBegin(l) ==
  /\ restart[l].pc = "idle"
  /\ restart' = [restart EXCEPT ![l] = [pc |-> "closing",
                                        client |-> EntryOf(lines, l).client]]
  /\ UNCHANGED <<lines, clients, authDir, sessions, linesRow, qrTask,
                 readyTask, discTask, probe, lookupErrs, sessionUpserts, qrReq>>
  /\ UNCHANGED routerVars

\* client destroyed; lines.delete; clearLocalAuth; setState(restarting)
RestartTeardown(l) ==
  /\ restart[l].pc = "closing"
  /\ LET reg1 == MapDelete(lines, l)
         patch == [status |-> "restarting", phone |-> NULL,
                   lastQrDataUrl |-> NULL]
     IN \E f \in LookupsIf(l, setStateReaches(reg1, l, patch)) :
          /\ lookupErrs' = lookupErrs - Cost(f)
          /\ lines' = setStateReg(reg1, l, patch)
          /\ sessions' = setStateSessions(sessions, reg1, l, patch, f)
          /\ sessionUpserts' =
                sessionUpserts \cup setStateSent(reg1, l, patch, f)
  /\ clients' = destroyOf(clients, restart[l].client)
  /\ authDir' = clearLocalAuth(authDir, l)
  /\ restart' = [restart EXCEPT ![l] = [pc |-> "ensure", client |-> NONE]]
  /\ UNCHANGED <<linesRow, qrTask, readyTask, discTask, probe, qrReq>>
  /\ UNCHANGED routerVars

\* await ensureClient(lineId); res.json({ ok: true })
RestartEnsure(l) ==
  /\ restart[l].pc = "ensure"
  /\ IF l \in DOMAIN lines
     THEN /\ restart' = [restart EXCEPT ![l] = [pc |-> "idle", client |-> NONE]]
          /\ UNCHANGED clients
     ELSE /\ FreshIds # {}
          /\ clients' = buildClient(clients, NextId, l)
          /\ restart' = [restart EXCEPT ![l] = [pc |-> "attaching",
                                                client |-> NextId]]
  /\ UNCHANGED <<lines, authDir, sessions, linesRow, qrTask, readyTask,
                 discTask, probe, lookupErrs, sessionUpserts, qrReq>>
  /\ UNCHANGED routerVars

\* ---- POST /lines/:lineId/qr ----------------------------------------------
\* const st = await ensureClient(lineId) on a registered line: the entry
\* object the registry holds now; then the ready test or the first loop test
QrBegin(l) ==
  /\ qrReq[l].pc = "idle"
  /\ qrReq[l].calls < MaxQrCalls
  /\ IF l \in DOMAIN lines
     THEN /\ qrReq' = [qrReq EXCEPT ![l] =
                         AfterEnsure([@ EXCEPT !.calls = @ + 1],
                                     EntryObject(lines[l]))]
          /\ UNCHANGED clients
     ELSE /\ FreshIds # {}
          /\ clients' = buildClient(clients, NextId, l)
          /\ qrReq' = [qrReq EXCEPT ![l] =
                         [@ EXCEPT !.pc = "attaching", !.obj = NextId,
                                   !.calls = @ + 1]]
  /\ UNCHANGED <<lines, authDir, sessions, linesRow, qrTask, readyTask,
                 discTask, probe, restart, lookupErrs, sessionUpserts>>
  /\ UNCHANGED routerVars

\* sleep(250) is over: the next test of
\* `while (!st.lastQrDataUrl && tries++ < 120)` starts another sleep or ends
\* the wait with res.json({ status: st.status, qr: st.lastQrDataUrl || null })
QrPoll(l) ==
  /\ qrReq[l].pc = "poll"
  /\ IF StQr(qrReq[l]) = NULL /\ qrReq[l].tries < MaxPolls
     THEN /\ qrReq' = [qrReq EXCEPT ![l].tries = @ + 1]
          /\ UNCHANGED clients
     ELSE /\ qrReq' = [qrReq EXCEPT ![l] =
                         Respond(@, [status |-> @.status, qr |-> StQr(@)])]
          /\ clients' = IF qrReq[l].obj = NONE THEN clients
                        ELSE [clients EXCEPT ![qrReq[l].obj].stQr = NULL]
  /\ UNCHANGED <<lines, authDir, sessions, linesRow, qrTask,
                 readyTask, discTask, probe, restart, lookupErrs,
                 sessionUpserts>>
  /\ UNCHANGED routerVars

\* ---- specification of the line lifecycle ----------------------------------
InitLife ==
  /\ lines = <<>>
  /\ clients = [c \in ClientIds |-> NoClient]
  /\ authDir = [l \in Lines |-> FALSE]
  /\ sessions = <<>>
  /\ linesRow \in [Lines -> [project_id : Projects]]
  /\ qrTask = [c \in ClientIds |-> NULL]
  /\ readyTask = [c \in ClientIds |-> FALSE]
  /\ discTask = [c \in ClientIds |-> [pc |-> "idle", reason |-> NoReason]]
  /\ probe = [l \in Lines |-> [pc |-> "idle", client |-> NONE, last |-> NULL]]
  /\ restart = [l \in Lines |-> [pc |-> "idle", client |-> NONE]]
  /\ lookupErrs = MaxLookupErrors
  /\ sessionUpserts = {}
  /\ qrReq = [l \in Lines |-> IdleQrReq]

\* a message id the client has not delivered yet
NoMsg == [line_id |-> NULL, from |-> NULL, fromMe |-> FALSE, contact |-> NULL]

\* no amount: null, undefined or NaN
NoAmount == -1

\* recordIncomingChat not called yet for a message id
IdleH ==
  [pc |-> "idle", project_id |-> NULL, page_id |-> NULL, mimetype |-> NULL,
   score |-> 0, amount |-> NoAmount]

InitRouterIdle ==
  /\ seenMsgs = {}
  /\ msgs = [m \in MsgIds |-> NoMsg]
  /\ delivered = 0
  /\ h = [m \in MsgIds |-> IdleH]
  /\ chats = EmptyBag
  /\ agenda = <<>>
  /\ leads = EmptyBag
  /\ convs = EmptyBag
  /\ uploads = {}
  /\ capi = {}
  /\ api = [pc |-> "idle", project_id |-> NULL, contact |-> NULL, calls |-> 0,
            res |-> NULL]
  /\ ocr = {}
  /\ ocrCall = {}
  /\ pureCall = {}

Init == InitLife /\ InitRouterIdle /\ storeErrs = 0

Next ==
  \/ \E l \in Lines : HttpEnsure(l)
  \/ \E c \in ClientIds : AttachFinish(c)
  \/ \E c \in ClientIds : EvLoading(c)
  \/ \E c \in ClientIds : EvQr(c)
  \/ \E c \in ClientIds : QrFinish(c)
  \/ \E c \in ClientIds : EvAuthenticated(c)
  \/ \E c \in ClientIds : EvReady(c)
  \/ \E c \in ClientIds : ReadyFinish(c)
  \/ \E c \in ClientIds : EvDisconnected(c)
  \/ \E c \in ClientIds : DiscTeardown(c)
  \/ \E c \in ClientIds : DiscRestarting(c)
  \/ \E c \in ClientIds : DiscTimer(c)
  \/ \E l \in Lines : ProbeTick(l)
  \/ \E l \in Lines : ProbeFinish(l)
  \/ \E l \in Lines : RestartBegin(l)
  \/ \E l \in Lines : RestartTeardown(l)
  \/ \E l \in Lines : RestartEnsure(l)

Spec == Init /\ [][Next]_vars

\* the QR route with the client events of a line that is being linked (up
\* to ready; disconnects, the probe and POST /restart are left to Spec)
NextQr ==
  \/ \E l \in Lines : QrBegin(l)
  \/ \E l \in Lines : QrPoll(l)
  \/ \E l \in Lines : HttpEnsure(l)
  \/ \E c \in ClientIds : AttachFinish(c)
  \/ \E c \in ClientIds : EvLoading(c)
  \/ \E c \in ClientIds : EvQr(c)
  \/ \E c \in ClientIds : QrFinish(c)
  \/ \E c \in ClientIds : EvAuthenticated(c)
  \/ \E c \in ClientIds : EvReady(c)
  \/ \E c \in ClientIds : ReadyFinish(c)

SpecQr == Init /\ [][NextQr]_vars

\* a line that is linked, probed every 20 s and may lose its client: the
\* client events up to ready, the disconnected handler and the health probe
NextRecovery ==
  \/ \E l \in Lines : HttpEnsure(l)
  \/ \E c \in ClientIds : AttachFinish(c)
  \/ \E c \in ClientIds : EvReady(c)
  \/ \E c \in ClientIds : ReadyFinish(c)
  \/ \E c \in ClientIds : EvDisconnected(c)
  \/ \E c \in ClientIds : DiscTeardown(c)
  \/ \E c \in ClientIds : DiscRestarting(c)
  \/ \E c \in ClientIds : DiscTimer(c)
  \/ \E l \in Lines : ProbeTick(l)
  \/ \E l \in Lines : ProbeFinish(l)

\* what the event loop guarantees: a pending await resumes once its promise
\* settles and a scheduled timer fires. Client events and HTTP requests are
\* the environment's and carry no fairness.
RecoveryFairness ==
  /\ \A c \in ClientIds : WF_vars(AttachFinish(c))
  /\ \A c \in ClientIds : WF_vars(ReadyFinish(c))
  /\ \A c \in ClientIds : WF_vars(DiscTeardown(c))
  /\ \A c \in ClientIds : WF_vars(DiscRestarting(c))
  /\ \A c \in ClientIds : WF_vars(DiscTimer(c))
  /\ \A l \in Lines : WF_vars(ProbeTick(l))
  /\ \A l \in Lines : WF_vars(ProbeFinish(l))

SpecRecovery == Init /\ [][NextRecovery]_vars /\ RecoveryFairness

\* ---- row store and message inputs ---------------------------------------
MaxApiCalls == 1
MaxStoreErrors == 2

Pages == {"pg1"}
\* the project_id column of a pages row
PageProject(page) == CHOOSE p \in Projects : TRUE

\* mimetypes reported by downloadMedia; the pipeline takes images and PDFs
Mimes == {"image/jpeg", "application/pdf", "video/mp4"}
ImageMimes == {"image/jpeg"}
PdfMimes == {"application/pdf"}

\* what scoreReceiptText, the grouped-number scan and the visual fallback
\* can report for a receipt
Scores0 == {3, 5}
Amounts0 == {NoAmount, 25}
MaxBigs == {NoAmount, 25000}
Fallbacks == {NoAmount, 25}

\* req.body.message of POST /api/chats/new (router rows carry the message id)
ApiMessage == 0

\* the messages a client can deliver: from an individual chat (@c.us) or a
\* group (@g.us), written by a contact or by the account itself (fromMe)
Messages ==
  {x \in [line_id : Lines, from : {"@c.us", "@g.us"}, fromMe : BOOLEAN,
          contact : Contacts] :
      (x.from = "@g.us" \/ x.fromMe)
        => (x.contact = (CHOOSE c \in Contacts : TRUE) /\ ~(x.from = "@g.us" /\ x.fromMe))}

\* supabase.from(t).insert(row)
InsertRow(table, row) == table (+) SetToBag({row})

\* rows of a table with the given project_id and contact
RowsFor(table, p, c) ==
  {r \in BagToSet(table) : r.project_id = p /\ r.contact = c}

\* supabase.from(t).upsert(row, { onConflict: "project_id,contact" }) on a
\* table whose rows carry no column the upsert changes
UpsertRow(table, row) ==
  IF RowsFor(table, row.project_id, row.contact) # {} THEN table
  ELSE InsertRow(table, row)

\* agenda upsert on (project_id, contact) / update ... eq(project_id) eq(contact)
AgendaUpsert(ag, p, c, status) == MapSet(ag, <<p, c>>, status)
AgendaUpdate(ag, p, c, status) ==
  IF <<p, c>> \in DOMAIN ag THEN [ag EXCEPT ![<<p, c>>] = status] ELSE ag

\* ---- amount normalization and the accept gate ------------------------------
IsFinite(a) == a # NoAmount
Max(a, b) == IF a >= b THEN a ELSE b
MP_FORCE_X1000 == TRUE

\* 1) strongest grouped-thousands number wins when the amount is missing or small
SafetyRule(sa, maxBig) ==
  IF (~IsFinite(sa.amount) \/ sa.amount < 1000) /\ IsFinite(maxBig)
  THEN [score |-> Max(sa.score, 10), amount |-> maxBig]
  ELSE sa

\* 2) a ".000" hint in the text scales a small amount
TripleZeroRule(sa, hint) ==
  IF IsFinite(sa.amount) /\ sa.amount < 1000 /\ hint
  THEN [score |-> Max(sa.score, 10), amount |-> sa.amount * 1000]
  ELSE sa

\* Mercado Pago x1000 for every amount below a million
MpRuleBelowMillion(sa, isMP, floor) ==
  IF MP_FORCE_X1000 /\ isMP /\ IsFinite(sa.amount) /\ sa.amount > 0
     /\ sa.amount < 1000000
  THEN [score |-> Max(sa.score, floor), amount |-> sa.amount * 1000]
  ELSE sa

\* 3) and 5) Mercado Pago x1000
MpRule(sa, isMP, floor) ==
  IF MP_FORCE_X1000 /\ isMP /\ IsFinite(sa.amount) /\ sa.amount > 0
     /\ sa.amount < 1000
  THEN [score |-> Max(sa.score, floor), amount |-> sa.amount * 1000]
  ELSE sa

\* 4) the visual fallback is tried for Mercado Pago images without an amount
NeedsFallback(sa, isMP, mimetype) ==
  /\ ~IsFinite(sa.amount) \/ sa.amount <= 0
  /\ isMP
  /\ mimetype \in ImageMimes

\* the visual fallback taking the reading and leaving the score alone
FallbackRuleKeepScore(sa, fallbackAmount) ==
  IF IsFinite(fallbackAmount) /\ fallbackAmount > 0
  THEN [score |-> sa.score, amount |-> fallbackAmount]
  ELSE sa

\* 4) a positive reading of the visual fallback becomes the amount
FallbackRule(sa, fallbackAmount) ==
  IF IsFinite(fallbackAmount) /\ fallbackAmount > 0
  THEN [score |-> Max(sa.score, 12), amount |-> fallbackAmount]
  ELSE sa

\* the gate accepting a receipt with only the score test
AcceptOnScore(sa) == sa.score >= 4

\* if (score >= 4 && amount && amount > 0)
Accept(sa) ==
  sa.score >= 4 /\ IsFinite(sa.amount) /\ sa.amount # 0 /\ sa.amount > 0

\* ---- recordIncomingChat: control flow between its awaits ---------------------
AfterProject(taggedSlug) == IF taggedSlug THEN "page" ELSE "chat"
AfterCapiLead(media) == IF media THEN "download" ELSE "done"
AfterTrigger(page_id, media) ==
  IF page_id # NULL THEN "capiLead" ELSE AfterCapiLead(media)
AfterLeads(trigger, page_id, media) ==
  IF trigger THEN "trigger" ELSE AfterTrigger(page_id, media)
AfterGate(sa) == IF Accept(sa) THEN "upload" ELSE "ignored"
AfterAgendaUpdate(page_id, amount) ==
  IF page_id # NULL /\ IsFinite(amount) /\ amount > 0 THEN "capiPurchase"
  ELSE "processed"

\* recordIncomingChat returned: its locals are gone
Returned(hm) ==
  IF hm.pc \in {"done", "processed"} THEN [IdleH EXCEPT !.pc = hm.pc] ELSE hm

\* the seen-set never reporting a message id
IsSeenNever(key) == FALSE

\* seenMsgs.has(key)
IsSeen(key) == key \in seenMsgs

\* a seen-set that takes no new id
SeenAddNothing(seen, key) == seen

\* seenMsgs.add(key)
SeenAdd(seen, key) == seen \cup {key}

\* recordIncomingChat from its entry to its first await (or return)
StartH(msg, taggedSlug) ==
  IF msg.from # "@c.us" \/ msg.fromMe
  THEN [IdleH EXCEPT !.pc = "skipped"]
  ELSE LET st == EntryOf(lines, msg.line_id)
       IN [IdleH EXCEPT !.project_id = st.project_id,
                        !.pc = IF st.project_id # NULL THEN AfterProject(taggedSlug)
                               ELSE IF taggedSlug THEN "projectTagged"
                               ELSE "project"]

RowOf(m) ==
  [project_id |-> h[m].project_id, contact |-> msgs[m].contact, message |-> m]

\* ---- recordIncomingChat -------------------------------------------------------
\* client.on("message") / client.on("message_create") call recordIncomingChat:
\* the seen check, the @c.us and fromMe filters, the registry read
Deliver(m) ==
  /\ \A k \in MsgIds : k < m => msgs[k] # NoMsg
  /\ IF msgs[m] = NoMsg
     THEN UNCHANGED delivered
     ELSE /\ delivered < MaxReplays
          /\ delivered' = delivered + 1
  /\ \E msg \in (IF msgs[m] = NoMsg THEN Messages ELSE {msgs[m]}) :
       /\ msgs' = [msgs EXCEPT ![m] = msg]
       /\ IF IsSeen(m)
          THEN UNCHANGED <<seenMsgs, h>>
          ELSE /\ seenMsgs' = SeenAdd(seenMsgs, m)
               /\ \E taggedSlug \in BOOLEAN :
                    h' = [h EXCEPT ![m] = StartH(msg, taggedSlug)]
  /\ UNCHANGED <<chats, agenda, leads, convs, uploads, capi, api>>
  /\ UNCHANGED <<ocr, storeErrs, ocrCall, pureCall>>
  /\ UNCHANGED <<regVars, lookupErrs>>

\* fetchProjectIdForLine(line_id) resolved
ProjectFetched(m) ==
  /\ h[m].pc \in {"project", "projectTagged"}
  /\ \E f \in FetchResults(msgs[m].line_id) :
       /\ lookupErrs' = lookupErrs - Cost(f)
       /\ h' = [h EXCEPT ![m].project_id = f,
                         ![m].pc = AfterProject(h[m].pc = "projectTagged")]
  /\ UNCHANGED <<seenMsgs, msgs, delivered, chats, agenda, leads,
                 convs, uploads, capi, api>>
  /\ UNCHANGED <<ocr, storeErrs, ocrCall, pureCall>>
  /\ UNCHANGED regVars

\* the pages lookup by the tagged slug resolved
PageFetched(m) ==
  /\ h[m].pc = "page"
  /\ \E page \in Pages \cup {NULL} :
       h' = [h EXCEPT ![m].page_id = page,
                      ![m].project_id =
                         IF page # NULL THEN PageProject(page) ELSE @,
                      ![m].pc = "chat"]
  /\ UNCHANGED <<seenMsgs, msgs, delivered, chats, agenda, leads,
                 convs, uploads, capi, api>>
  /\ UNCHANGED <<ocr, storeErrs, ocrCall, pureCall>>
  /\ UNCHANGED <<regVars, lookupErrs>>

\* what a store write can answer: no error, or an error while the run
\* still has failing writes left
StoreResults == {TRUE} \cup (IF storeErrs > 0 THEN {FALSE} ELSE {})

\* supabase.from(t).insert(row) answering ok or { error }
InsertResult(table, row, ok) == IF ok THEN InsertRow(table, row) ELSE table

\* the chat insert answered with an error and the handler gave up
AfterChatInsertAbort(ok) == IF ok THEN "name" ELSE "done"

\* if (insErr) console.error(...): the handler goes on either way
AfterChatInsert(ok) == "name"

\* 1) analytics_chats insert
ChatInserted(m) ==
  /\ h[m].pc = "chat"
  /\ \E ok \in StoreResults :
       /\ chats' = InsertResult(chats, RowOf(m), ok)
       /\ storeErrs' = storeErrs - (IF ok THEN 0 ELSE 1)
       /\ h' = [h EXCEPT ![m] = Returned([@ EXCEPT !.pc = AfterChatInsert(ok)])]
  /\ UNCHANGED <<seenMsgs, msgs, delivered, agenda, leads, convs,
                 uploads, capi, api>>
  /\ UNCHANGED <<ocr, ocrCall, pureCall>>
  /\ UNCHANGED <<regVars, lookupErrs>>

\* 2) getContact, getProfilePicUrl and the wa_contact_names upsert settled
\* (wa_contact_names is only ever written; its rows are not kept)
NameSaved(m) ==
  /\ h[m].pc = "name"
  /\ h' = [h EXCEPT ![m].pc = "agenda"]
  /\ UNCHANGED <<seenMsgs, msgs, delivered, chats, agenda, leads, convs,
                 uploads, capi, api>>
  /\ UNCHANGED <<ocr, storeErrs, ocrCall, pureCall>>
  /\ UNCHANGED <<regVars, lookupErrs>>

\* 3) agenda upsert with status "new"
AgendaUpserted(m) ==
  /\ h[m].pc = "agenda"
  /\ agenda' = AgendaUpsert(agenda, h[m].project_id, msgs[m].contact, "new")
  /\ h' = [h EXCEPT ![m].pc = "leadSel"]
  /\ UNCHANGED <<seenMsgs, msgs, delivered, chats, leads, convs,
                 uploads, capi, api>>
  /\ UNCHANGED <<ocr, storeErrs, ocrCall, pureCall>>
  /\ UNCHANGED <<regVars, lookupErrs>>

\* 3.1) analytics_leads select ... maybeSingle(): a row only when the lookup
\* succeeds and exactly one row matches
LeadExists(p, c, err) ==
  /\ ~err
  /\ Cardinality(RowsFor(leads, p, c)) = 1
  /\ \A r \in RowsFor(leads, p, c) : CopiesIn(r, leads) = 1

LeadSelected(m) ==
  /\ h[m].pc = "leadSel"
  /\ \E err \in BOOLEAN, trigger \in BOOLEAN, media \in BOOLEAN :
       h' = [h EXCEPT ![m] = Returned([@ EXCEPT !.pc =
               IF LeadExists(h[m].project_id, msgs[m].contact, err)
               THEN AfterLeads(trigger, h[m].page_id, media)
               ELSE "leadIns"])]
  /\ UNCHANGED <<seenMsgs, msgs, delivered, chats, agenda, leads,
                 convs, uploads, capi, api>>
  /\ UNCHANGED <<ocr, storeErrs, ocrCall, pureCall>>
  /\ UNCHANGED <<regVars, lookupErrs>>

\* 3.1) analytics_leads insert
LeadInserted(m) ==
  /\ h[m].pc = "leadIns"
  /\ leads' = InsertRow(leads, RowOf(m))
  /\ \E trigger \in BOOLEAN, media \in BOOLEAN :
       h' = [h EXCEPT ![m] = Returned([@ EXCEPT !.pc =
               AfterLeads(trigger, h[m].page_id, media)])]
  /\ UNCHANGED <<seenMsgs, msgs, delivered, chats, agenda, convs,
                 uploads, capi, api>>
  /\ UNCHANGED <<ocr, storeErrs, ocrCall, pureCall>>
  /\ UNCHANGED <<regVars, lookupErrs>>

\* the discount-code text: analytics_leads upsert on (project_id, contact)
TriggerUpserted(m) ==
  /\ h[m].pc = "trigger"
  /\ leads' = UpsertRow(leads, RowOf(m))
  /\ \E media \in BOOLEAN :
       h' = [h EXCEPT ![m] = Returned([@ EXCEPT !.pc =
               AfterTrigger(h[m].page_id, media)])]
  /\ UNCHANGED <<seenMsgs, msgs, delivered, chats, agenda, convs,
                 uploads, capi, api>>
  /\ UNCHANGED <<ocr, storeErrs, ocrCall, pureCall>>
  /\ UNCHANGED <<regVars, lookupErrs>>

\* sendMetaCapiEvent Lead
CapiLeadSent(m) ==
  /\ h[m].pc = "capiLead"
  /\ capi' = capi \cup {[event_name |-> "Lead", page_id |-> h[m].page_id,
                         message |-> m]}
  /\ \E media \in BOOLEAN :
       h' = [h EXCEPT ![m] = Returned([@ EXCEPT !.pc = AfterCapiLead(media)])]
  /\ UNCHANGED <<seenMsgs, msgs, delivered, chats, agenda, leads,
                 convs, uploads, api>>
  /\ UNCHANGED <<ocr, storeErrs, ocrCall, pureCall>>
  /\ UNCHANGED <<regVars, lookupErrs>>

\* score and amount after scoreReceiptText and rules 1) to 5), for what the
\* OCR text and the visual fallback can hold
Normalized(mimetype, score0, amount0, maxBig, hint, isMP, fallbackAmount) ==
  LET sa1 == SafetyRule([score |-> score0, amount |-> amount0], maxBig)
      sa2 == TripleZeroRule(sa1, hint)
      sa3 == MpRule(sa2, isMP, 10)
      sa4 == IF NeedsFallback(sa3, isMP, mimetype)
             THEN FallbackRule(sa3, fallbackAmount) ELSE sa3
  IN MpRule(sa4, isMP, 12)

Outcomes(mimetype) ==
  {Normalized(mimetype, score0, amount0, maxBig, hint, isMP, fallbackAmount) :
     score0 \in Scores0, amount0 \in Amounts0, maxBig \in MaxBigs,
     hint \in BOOLEAN, isMP \in BOOLEAN, fallbackAmount \in Fallbacks}

ImageOutcomes == Outcomes(CHOOSE t \in ImageMimes : TRUE)
PdfOutcomes == Outcomes(CHOOSE t \in PdfMimes : TRUE)

OutcomesOf(mimetype) ==
  IF mimetype \in ImageMimes THEN ImageOutcomes ELSE PdfOutcomes

\* ---- ocrFromMedia --------------------------------------------------------
\* what can happen inside one call: the decoded buffer is empty, pdf-parse
\* throws, the sharp pipeline throws, Tesseract is not loaded, recognize throws
OcrRuns ==
  [empty : BOOLEAN, pdfThrows : BOOLEAN, sharpThrows : BOOLEAN,
   noTesseract : BOOLEAN, recognizeThrows : BOOLEAN]

\* a call ends by returning a string or by throwing
OcrReturn(text) == [threw |-> FALSE, text |-> text]
OcrThrow == [threw |-> TRUE, text |-> NULL]

\* the body of the outer try block
ocrBody(mimetype, run) ==
  IF run.empty THEN OcrReturn("")
  ELSE IF mimetype \in PdfMimes
       THEN IF run.pdfThrows THEN OcrReturn("") ELSE OcrReturn("text")
       ELSE \* a failing sharp pipeline is logged and the raw buffer goes on
            IF run.noTesseract THEN OcrReturn("")
            ELSE IF run.recognizeThrows THEN OcrThrow
            ELSE OcrReturn("text")

\* ocrFromMedia without its outer catch
ocrFromMediaUncaught(mimetype, run) == ocrBody(mimetype, run)

\* ocrFromMedia: the outer catch turns every exception into ""
ocrFromMedia(mimetype, run) ==
  IF ocrBody(mimetype, run).threw THEN OcrReturn("") ELSE ocrBody(mimetype, run)

\* how the calls for a mimetype can end
OcrEnds(mimetype) == {ocrFromMedia(mimetype, run).threw : run \in OcrRuns}

\* one call ocrFromMedia({ base64, mimetype }) and what it gives back
OcrCalled ==
  /\ ocrCall = {}
  /\ UNCHANGED pureCall
  /\ \E mimetype \in Mimes \cup {NULL}, run \in OcrRuns :
       ocrCall' = {[mimetype |-> mimetype, run |-> run,
                    out |-> ocrFromMedia(mimetype, run)]}
  /\ UNCHANGED <<lifeVars, seenMsgs, msgs, delivered, h, chats, agenda, leads,
                 convs, uploads, capi, api, ocr, storeErrs>>

\* the mimetype test that lets every downloaded media through
IsReceiptMimeAny(mimetype) == mimetype # NULL

\* /^image\/(jpeg|png|webp)$/i.test(mimetype) || mimetype === "application/pdf"
IsReceiptMime(mimetype) == mimetype \in ImageMimes \cup PdfMimes

\* 4) msg.downloadMedia(), ocrFromMedia and tryExtractAmountFromImage settled
\* (three awaits of local computations, taken as one step): the mimetype
\* test, the OCR call, scoreReceiptText, normalization rules 1) to 5) and the
\* gate; an exception out of ocrFromMedia would end the handler in its catch
ReceiptScored(m) ==
  /\ h[m].pc = "download"
  /\ \E mimetype \in Mimes \cup {NULL} :
       IF ~IsReceiptMime(mimetype)
       THEN /\ h' = [h EXCEPT ![m] = Returned([@ EXCEPT !.pc = "done"])]
            /\ UNCHANGED ocr
       ELSE /\ ocr' = ocr \cup {[message |-> m, mimetype |-> mimetype]}
            /\ \E threw \in OcrEnds(mimetype) :
                 IF threw
                 THEN h' = [h EXCEPT ![m] = [IdleH EXCEPT !.pc = "failed"]]
                 ELSE \E sa \in OutcomesOf(mimetype) :
                        h' = [h EXCEPT ![m].mimetype = mimetype,
                                       ![m].score = sa.score,
                                       ![m].amount = sa.amount,
                                       ![m].pc = AfterGate(sa)]
  /\ UNCHANGED <<seenMsgs, msgs, delivered, chats, agenda, leads,
                 convs, uploads, capi, api>>
  /\ UNCHANGED <<storeErrs, ocrCall, pureCall>>
  /\ UNCHANGED <<regVars, lookupErrs>>

\* saveReceiptAndCreateConversion: the storage upload settled
ReceiptUploaded(m) ==
  /\ h[m].pc = "upload"
  /\ \E ok \in BOOLEAN :
       /\ uploads' = IF ok THEN uploads \cup {RowOf(m)} ELSE uploads
       /\ h' = [h EXCEPT ![m].pc = "conv"]
  /\ UNCHANGED <<seenMsgs, msgs, delivered, chats, agenda, leads,
                 convs, capi, api>>
  /\ UNCHANGED <<ocr, storeErrs, ocrCall, pureCall>>
  /\ UNCHANGED <<regVars, lookupErrs>>

\* the amount extractReceiptFields reads in the text, whatever forceAmount is
StoredAmountParsed(forceAmount, parsedAmount) == parsedAmount

\* (Number.isFinite(forceAmount) ? forceAmount : parsed.amount) ?? null
StoredAmount(forceAmount, parsedAmount) ==
  IF IsFinite(forceAmount) THEN forceAmount ELSE parsedAmount

\* saveReceiptAndCreateConversion: analytics_conversions insert
ConversionInserted(m) ==
  /\ h[m].pc = "conv"
  /\ \E ok \in StoreResults, parsedAmount \in Amounts0 :
       /\ convs' = InsertResult(convs,
                       [project_id |-> h[m].project_id,
                        contact |-> msgs[m].contact,
                        message |-> m,
                        amount |-> StoredAmount(h[m].amount, parsedAmount),
                        file_mime |-> h[m].mimetype,
                        file_url |-> IF RowOf(m) \in uploads
                                     THEN "url" ELSE NULL], ok)
       /\ storeErrs' = storeErrs - (IF ok THEN 0 ELSE 1)
  /\ h' = [h EXCEPT ![m].pc = "agendaConv"]
  /\ UNCHANGED <<seenMsgs, msgs, delivered, chats, agenda, leads,
                 uploads, capi, api>>
  /\ UNCHANGED <<ocr, ocrCall, pureCall>>
  /\ UNCHANGED <<regVars, lookupErrs>>

\* saveReceiptAndCreateConversion: agenda upsert with status "conversion"
AgendaConversionUpserted(m) ==
  /\ h[m].pc = "agendaConv"
  /\ agenda' = AgendaUpsert(agenda, h[m].project_id, msgs[m].contact,
                            "conversion")
  /\ h' = [h EXCEPT ![m].pc = "agendaUpd"]
  /\ UNCHANGED <<seenMsgs, msgs, delivered, chats, leads, convs,
                 uploads, capi, api>>
  /\ UNCHANGED <<ocr, storeErrs, ocrCall, pureCall>>
  /\ UNCHANGED <<regVars, lookupErrs>>

\* back in recordIncomingChat: agenda update to "conversion"
AgendaConversionUpdated(m) ==
  /\ h[m].pc = "agendaUpd"
  /\ agenda' = AgendaUpdate(agenda, h[m].project_id, msgs[m].contact,
                            "conversion")
  /\ h' = [h EXCEPT ![m] = Returned([@ EXCEPT !.pc =
              AfterAgendaUpdate(h[m].page_id, h[m].amount)])]
  /\ UNCHANGED <<seenMsgs, msgs, delivered, chats, leads, convs,
                 uploads, capi, api>>
  /\ UNCHANGED <<ocr, storeErrs, ocrCall, pureCall>>
  /\ UNCHANGED <<regVars, lookupErrs>>

\* sendMetaCapiEvent Purchase
CapiPurchaseSent(m) ==
  /\ h[m].pc = "capiPurchase"
  /\ capi' = capi \cup {[event_name |-> "Purchase", page_id |-> h[m].page_id,
                         message |-> m, external_id |-> msgs[m].contact,
                         value |-> h[m].amount, currency |-> "ARS"]}
  /\ h' = [h EXCEPT ![m] = Returned([@ EXCEPT !.pc = "processed"])]
  /\ UNCHANGED <<seenMsgs, msgs, delivered, chats, agenda, leads,
                 convs, uploads, api>>
  /\ UNCHANGED <<ocr, storeErrs, ocrCall, pureCall>>
  /\ UNCHANGED <<regVars, lookupErrs>>

\* ---- POST /api/chats/new ------------------------------------------------------
\* validation of project_id and contact; 400 when one is missing
ApiBegin ==
  /\ api.pc = "idle"
  /\ api.calls < MaxApiCalls
  /\ \E project_id \in Projects \cup {NULL}, contact \in Contacts \cup {NULL} :
       api' = IF project_id = NULL \/ contact = NULL
              THEN [api EXCEPT !.calls = @ + 1, !.res = "400"]
              ELSE [pc |-> "chat", project_id |-> project_id,
                    contact |-> contact, calls |-> api.calls + 1,
                    res |-> NULL]
  /\ UNCHANGED <<seenMsgs, msgs, delivered, h, chats, agenda, leads,
                 convs, uploads, capi>>
  /\ UNCHANGED <<ocr, storeErrs, ocrCall, pureCall>>
  /\ UNCHANGED <<regVars, lookupErrs>>

\* the route going on to the name and the agenda after a failed insert
ApiAfterInsertAnyway(ok, name) == IF name THEN "name" ELSE "agenda"

\* if (insErr) return res.status(500)...; if (name) ...
ApiAfterInsert(ok, name) ==
  IF ~ok THEN "idle" ELSE IF name THEN "name" ELSE "agenda"

\* the request is over: its locals are gone
ApiReturned(a) ==
  IF a.pc = "idle" THEN [a EXCEPT !.project_id = NULL, !.contact = NULL] ELSE a

\* 1) analytics_chats insert; 500 insert_failed on an error
ApiChatInserted ==
  /\ api.pc = "chat"
  /\ \E ok \in BOOLEAN, name \in BOOLEAN :
       /\ chats' = InsertResult(chats, [project_id |-> api.project_id,
                                        contact |-> api.contact,
                                        message |-> ApiMessage], ok)
       /\ api' = ApiReturned([api EXCEPT
                    !.pc = ApiAfterInsert(ok, name),
                    !.res = IF ok THEN @ ELSE "500 insert_failed"])
  /\ UNCHANGED <<seenMsgs, msgs, delivered, h, agenda, leads, convs,
                 uploads, capi>>
  /\ UNCHANGED <<ocr, storeErrs, ocrCall, pureCall>>
  /\ UNCHANGED <<regVars, lookupErrs>>

\* 2) optional wa_contact_names upsert settled
ApiNameSaved ==
  /\ api.pc = "name"
  /\ api' = [api EXCEPT !.pc = "agenda"]
  /\ UNCHANGED <<seenMsgs, msgs, delivered, h, chats, agenda, leads, convs,
                 uploads, capi>>
  /\ UNCHANGED <<ocr, storeErrs, ocrCall, pureCall>>
  /\ UNCHANGED <<regVars, lookupErrs>>

\* 3) agenda upsert with status "new"; res.json({ ok: true })
ApiAgendaUpserted ==
  /\ api.pc = "agenda"
  /\ agenda' = AgendaUpsert(agenda, api.project_id, api.contact, "new")
  /\ api' = ApiReturned([api EXCEPT !.pc = "idle", !.res = "200 ok"])
  /\ UNCHANGED <<seenMsgs, msgs, delivered, h, chats, leads, convs,
                 uploads, capi>>
  /\ UNCHANGED <<ocr, storeErrs, ocrCall, pureCall>>
  /\ UNCHANGED <<regVars, lookupErrs>>

\* ---- specification of the inbound router ---------------------------------------
\* a line whose client is ready; its attach either resolved the project or
\* met a failing lookup
InitReady ==
  /\ \E pid \in Projects \cup {NULL}, phone \in Phones :
       /\ lines = [l \in Lines |->
                     [client |-> 1, status |-> "ready", lastQrDataUrl |-> NULL,
                      phone |-> phone, project_id |-> pid]]
       /\ clients = [c \in ClientIds |->
                       IF c = 1
                       THEN [line |-> CHOOSE l \in Lines : TRUE, phase |-> "live",
                             destroyed |-> FALSE, stProject |-> pid,
                             stQr |-> NULL]
                       ELSE NoClient]
       /\ sessions = IF pid = NULL THEN <<>>
                     ELSE [l \in Lines |->
                             [project_id |-> pid, wa_status |-> "connected",
                              wa_phone |-> phone]]
  /\ authDir = [l \in Lines |-> TRUE]
  /\ linesRow \in [Lines -> [project_id : Projects]]
  /\ qrTask = [c \in ClientIds |-> NULL]
  /\ readyTask = [c \in ClientIds |-> FALSE]
  /\ discTask = [c \in ClientIds |-> [pc |-> "idle", reason |-> NoReason]]
  /\ probe = [l \in Lines |-> [pc |-> "idle", client |-> NONE, last |-> NULL]]
  /\ restart = [l \in Lines |-> [pc |-> "idle", client |-> NONE]]
  /\ sessionUpserts = {sessions[l].project_id : l \in DOMAIN sessions}
  /\ qrReq = [l \in Lines |-> IdleQrReq]
  /\ InitRouterIdle

\* the router over a store that accepts every write; the lookup that failed
\* during an attach counts against the failing lookups of the run
InitRouter ==
  /\ InitReady
  /\ lookupErrs = IF \A l \in Lines : lines[l].project_id # NULL
                  THEN MaxLookupErrors ELSE MaxLookupErrors - 1
  /\ storeErrs = 0

NextRouter ==
  \/ \E m \in MsgIds : Deliver(m)
  \/ \E m \in MsgIds : ProjectFetched(m)
  \/ \E m \in MsgIds : PageFetched(m)
  \/ \E m \in MsgIds : ChatInserted(m)
  \/ \E m \in MsgIds : NameSaved(m)
  \/ \E m \in MsgIds : AgendaUpserted(m)
  \/ \E m \in MsgIds : LeadSelected(m)
  \/ \E m \in MsgIds : LeadInserted(m)
  \/ \E m \in MsgIds : TriggerUpserted(m)
  \/ \E m \in MsgIds : CapiLeadSent(m)
  \/ \E m \in MsgIds : ReceiptScored(m)
  \/ \E m \in MsgIds : ReceiptUploaded(m)
  \/ \E m \in MsgIds : ConversionInserted(m)
  \/ \E m \in MsgIds : AgendaConversionUpserted(m)
  \/ \E m \in MsgIds : AgendaConversionUpdated(m)
  \/ \E m \in MsgIds : CapiPurchaseSent(m)
  \/ ApiBegin
  \/ ApiChatInserted
  \/ ApiNameSaved
  \/ ApiAgendaUpserted

SpecRouter == InitRouter /\ [][NextRouter]_vars

\* ---- one message over a failing store -----------------------------------------
\* the first message of a line, with store writes and lines lookups that may
\* fail
InitReceipt ==
  /\ InitReady
  /\ lookupErrs = MaxLookupErrors
  /\ storeErrs = MaxStoreErrors

NextReceipt ==
  \/ Deliver(1)
  \/ \E m \in MsgIds : ProjectFetched(m)
  \/ \E m \in MsgIds : PageFetched(m)
  \/ \E m \in MsgIds : ChatInserted(m)
  \/ \E m \in MsgIds : NameSaved(m)
  \/ \E m \in MsgIds : AgendaUpserted(m)
  \/ \E m \in MsgIds : LeadSelected(m)
  \/ \E m \in MsgIds : LeadInserted(m)
  \/ \E m \in MsgIds : TriggerUpserted(m)
  \/ \E m \in MsgIds : CapiLeadSent(m)
  \/ \E m \in MsgIds : ReceiptScored(m)
  \/ \E m \in MsgIds : ReceiptUploaded(m)
  \/ \E m \in MsgIds : ConversionInserted(m)
  \/ \E m \in MsgIds : AgendaConversionUpserted(m)
  \/ \E m \in MsgIds : AgendaConversionUpdated(m)
  \/ \E m \in MsgIds : CapiPurchaseSent(m)

SpecReceipt == InitReceipt /\ [][NextReceipt]_vars

\* ocrFromMedia on its own: one call, on any mimetype and any run
NextOcr == OcrCalled

SpecOcr == Init /\ [][NextOcr]_vars

\* ---- receipt texts: characters and numbers -------------------------------------
\* a text is a sequence of characters; a word the code only tests for as a
\* whole ("monto", "galicia") is one element, in lower case (every test on
\* words has the i flag); digits and punctuation are one character each
Digits == {"0", "1", "2", "3", "4", "5", "6", "7", "8", "9"}
Separators == {".", ","}
Blanks == {" ", "\n"}
Ohs == {"o", "O"}

IsDigit(ch) == ch \in Digits

\* \w: a digit or a letter (a word element)
IsWordChar(ch) == ch \notin Separators \cup Blanks \cup {"$", ":", "-", "/", "+"}

DigitValue(ch) ==
  CASE ch = "0" -> 0 [] ch = "1" -> 1 [] ch = "2" -> 2 [] ch = "3" -> 3
    [] ch = "4" -> 4 [] ch = "5" -> 5 [] ch = "6" -> 6 [] ch = "7" -> 7
    [] ch = "8" -> 8 [] ch = "9" -> 9

DigitChar(d) ==
  CASE d = 0 -> "0" [] d = 1 -> "1" [] d = 2 -> "2" [] d = 3 -> "3"
    [] d = 4 -> "4" [] d = 5 -> "5" [] d = 6 -> "6" [] d = 7 -> "7"
    [] d = 8 -> "8" [] d = 9 -> "9"

\* integer parts are counted up to Huge; the code compares amounts with
\* 10,000,000 at most, so every larger value behaves like Huge
Huge == 100000000

RECURSIVE ValueOf(_)
ValueOf(ds) ==
  IF ds = <<>> THEN 0
  ELSE LET v == ValueOf(SubSeq(ds, 1, Len(ds) - 1)) * 10 + DigitValue(ds[Len(ds)])
       IN IF v > Huge THEN Huge ELSE v

\* a Number: integer part and fractional digits (no trailing zero); NaN and
\* null are NoNumber
NoNumber == [int |-> -1, frac |-> <<>>]
IsFiniteNumber(v) == v.int >= 0
Whole(n) == [int |-> n, frac |-> <<>>]

\* the longest run of characters of a class that starts at position i
RunLen(s, i, class) ==
  LET ends == {n \in 0..(Len(s) + 1 - i) : \A k \in i..(i + n - 1) : s[k] \in class}
  IN IF i > Len(s) THEN 0 ELSE CHOOSE n \in ends : \A n2 \in ends : n2 <= n

\* the longest run of characters of a class that ends the string
TailLen(s, class) ==
  LET ends == {n \in 0..Len(s) : \A k \in (Len(s) - n + 1)..Len(s) : s[k] \in class}
  IN CHOOSE n \in ends : \A n2 \in ends : n2 <= n

StripZeros(ds) == SubSeq(ds, 1, Len(ds) - TailLen(ds, {"0"}))

\* parseFloat on a string of digits, "." and ",": the longest numeric prefix
parseFloat(s) ==
  LET n == RunLen(s, 1, Digits)
      hasDot == n < Len(s) /\ s[n + 1] = "."
      f == IF hasDot THEN RunLen(s, n + 2, Digits) ELSE 0
  IN IF n = 0 /\ f = 0 THEN NoNumber
     ELSE [int |-> ValueOf(SubSeq(s, 1, n)),
           frac |-> StripZeros(SubSeq(s, n + 2, n + 1 + f))]

\* v * 1000
Times1000(v) ==
  LET pad == v.frac \o <<"0", "0", "0">>
      int == v.int * 1000 + ValueOf(SubSeq(pad, 1, 3))
  IN [int |-> IF int > Huge THEN Huge ELSE int,
      frac |-> SubSeq(v.frac, 4, Len(v.frac))]

\* v < n, v >= n, v > 0 for a whole n
Below(v, n) == v.int < n
AtLeast(v, n) == v.int >= n
AtMost(v, n) == v.int < n \/ (v.int = n /\ v.frac = <<>>)
Positive(v) == v.int > 0 \/ v.frac # <<>>

RECURSIVE DigitsOf(_)
DigitsOf(n) ==
  IF n < 10 THEN <<DigitChar(n)>> ELSE DigitsOf(n \div 10) \o <<DigitChar(n % 10)>>

\* String(v) of a Number below 1e21: plain decimal notation
FormatNumber(v) ==
  IF v.frac = <<>> THEN DigitsOf(v.int) ELSE DigitsOf(v.int) \o <<".">> \o v.frac

\* ---- toNumberARS ----------------------------------------------------------------
Keep(s, class) == SelectSeq(s, LAMBDA ch : ch \in class)
Without(s, class) == SelectSeq(s, LAMBDA ch : ch \notin class)
Includes(s, ch) == \E i \in 1..Len(s) : s[i] = ch

\* s.replace(a, b) with a string a: the first occurrence only
ReplaceFirst(s, a, b) ==
  IF ~Includes(s, a) THEN s
  ELSE LET i == CHOOSE k \in 1..Len(s) : s[k] = a /\ \A j \in 1..(k - 1) : s[j] # a
       IN [k \in 1..Len(s) |-> IF k = i THEN b ELSE s[k]]

\* s.split(sep) for a one-character sep
RECURSIVE Split(_, _)
Split(s, sep) ==
  IF ~Includes(s, sep) THEN <<s>>
  ELSE LET i == CHOOSE k \in 1..Len(s) : s[k] = sep /\ \A j \in 1..(k - 1) : s[j] # sep
       IN <<SubSeq(s, 1, i - 1)>> \o Split(SubSeq(s, i + 1, Len(s)), sep)

RECURSIVE Join(_)
Join(parts) == IF parts = <<>> THEN <<>> ELSE Head(parts) \o Join(Tail(parts))

\* .replace(/(?<=\d)[oO](?=\d)/g, "0")
ReplaceOhs(raw) ==
  [i \in 1..Len(raw) |->
     IF raw[i] \in Ohs /\ i > 1 /\ i < Len(raw)
        /\ IsDigit(raw[i - 1]) /\ IsDigit(raw[i + 1])
     THEN "0" ELSE raw[i]]

\* .replace(/^[.,]+|[.,]+$/g, "")
StripSeparators(s) ==
  LET lead == RunLen(s, 1, Separators)
      rest == SubSeq(s, lead + 1, Len(s))
  IN SubSeq(rest, 1, Len(rest) - TailLen(rest, Separators))

\* /[.,](?:0{3}|0{2}[oO]|0[oO]0|[oO]0{2})(?!\d)/
RE_TRIPLE_ZERO_HINT(s) ==
  \E i \in 1..(Len(s) - 3) :
     /\ s[i] \in Separators
     /\ \/ s[i + 1] = "0" /\ s[i + 2] = "0" /\ s[i + 3] \in {"0"} \cup Ohs
        \/ s[i + 1] = "0" /\ s[i + 2] \in Ohs /\ s[i + 3] = "0"
        \/ s[i + 1] \in Ohs /\ s[i + 2] = "0" /\ s[i + 3] = "0"
     /\ (i + 4 > Len(s) \/ ~IsDigit(s[i + 4]))

\* /\.0{3,}\b/
DotZerosBoundary(s) ==
  \E i \in 1..(Len(s) - 3) :
     /\ s[i] = "."
     /\ LET z == RunLen(s, i + 1, {"0"})
        IN z >= 3 /\ (i + z = Len(s) \/ ~IsWordChar(s[i + z + 1]))

\* /^\d{1,3}(?:,\d{3})+(?:,\d{1,2})?$/ and the same with "." on a string of
\* digits and that separator
looksThousands(s, sep) ==
  LET parts == Split(s, sep)
      n == Len(parts)
  IN /\ n >= 2
     /\ Len(parts[1]) \in 1..3
     /\ \/ \A k \in 2..n : Len(parts[k]) = 3
        \/ /\ n >= 3
           /\ \A k \in 2..(n - 1) : Len(parts[k]) = 3
           /\ Len(parts[n]) \in 1..2

\* parts.pop() becomes the decimals: parts.join("") + "." + dec
PopDecimals(parts) ==
  Join(SubSeq(parts, 1, Len(parts) - 1)) \o <<".">> \o parts[Len(parts)]

\* toNumberARS(raw) for a string raw without NBSP; arithmetic is exact
\* (decimal), as it is in the code for the amounts of a receipt
toNumberARS(raw) ==
  LET original == raw
      s == StripSeparators(Keep(ReplaceOhs(original), Digits \cup Separators))
      hasOcrTripleZero == RE_TRIPLE_ZERO_HINT(original)
  IN IF s = <<>> THEN NoNumber
     ELSE IF Includes(s, ".") /\ Includes(s, ",")
     THEN parseFloat(ReplaceFirst(Without(s, {"."}), ",", "."))
     ELSE IF Includes(s, ",")
     THEN IF looksThousands(s, ",")
          THEN LET parts == Split(s, ",")
               IN IF Len(parts[Len(parts)]) <= 2
                  THEN parseFloat(PopDecimals(parts))
                  ELSE parseFloat(Join(parts))
          ELSE parseFloat(ReplaceFirst(Without(s, {"."}), ",", "."))
     ELSE IF Includes(s, ".")
     THEN LET parts == Split(s, ".")
              last == parts[Len(parts)]
          IN IF hasOcrTripleZero THEN parseFloat(Without(s, {"."}))
             ELSE IF last = <<"0", "0", "0">> \/ Len(last) = 3
                  THEN parseFloat(Without(s, {"."}))
             ELSE IF looksThousands(s, ".") THEN parseFloat(PopDecimals(parts))
             ELSE LET v == parseFloat(s)
                  IN IF IsFiniteNumber(v) /\ Below(v, 1000)
                        /\ DotZerosBoundary(original)
                     THEN Times1000(v) ELSE v
     ELSE parseFloat(s)

\* ---- toNumberARS on its own ------------------------------------------------------
MaxTokenLen == 6
TokenChars == {"0", "1", ".", ","}

\* the raw strings handed to toNumberARS: every string of up to MaxTokenLen
\* characters of TokenChars, and two amounts as receipts print them
Tokens ==
  UNION {[1..n -> TokenChars] : n \in 1..MaxTokenLen}
    \cup {<<"1", ".", "2", "3", "4", ",", "5", "6", "7">>,
          <<"7", ".", "5", "0", "0">>}

\* toNumberARS(raw), and toNumberARS again on the string form of the result
NormCalled ==
  /\ pureCall = {}
  /\ \E raw \in Tokens :
       LET out == toNumberARS(raw)
       IN pureCall' = {[fn |-> "toNumberARS", raw |-> raw, out |-> out,
                        again |-> IF IsFiniteNumber(out)
                                  THEN toNumberARS(FormatNumber(out))
                                  ELSE NoNumber]}
  /\ UNCHANGED <<lifeVars, seenMsgs, msgs, delivered, h, chats, agenda, leads,
                 convs, uploads, capi, api, ocr, storeErrs, ocrCall>>

NextNormalizer == NormCalled

SpecNormalizer == Init /\ [][NextNormalizer]_vars

\* ---- findBestAmount ---------------------------------------------------------------
\* String.prototype.trim on a line (a line holds no "\n")
Trim(s) ==
  LET lead == RunLen(s, 1, {" "})
      rest == SubSeq(s, lead + 1, Len(s))
  IN SubSeq(rest, 1, Len(rest) - TailLen(rest, {" "}))

\* text.split(/\n+/).map(s => s.trim()).filter(Boolean)
SplitLines(text) ==
  LET parts == Split(text, "\n")
  IN SelectSeq([i \in 1..Len(parts) |-> Trim(parts[i])], LAMBDA l : l # <<>>)

\* a word of the set, anywhere in the line
HasWord(line, words) == \E i \in 1..Len(line) : line[i] \in words

\* /mercado\s*pago/
HasMercadoPago(s) ==
  \E i \in 1..Len(s) :
     /\ s[i] = "mercado"
     /\ LET j == i + 1 + RunLen(s, i + 1, Blanks)
        IN j <= Len(s) /\ s[j] = "pago"

\* /(de|para)\b/: the word, then a word boundary
HasWordThenBoundary(line, words) ==
  \E i \in 1..Len(line) :
     line[i] \in words /\ (i = Len(line) \/ ~IsWordChar(line[i + 1]))

\* /(cuit|cuil|cvu|cbu|coelsa|operaci[oó]n|transacci[oó]n|identificaci[oó]n|
\*   c[oó]digo|n[uú]mero|referencia)/i
BAD_CTX(line) ==
  HasWord(line, {"cuit", "cuil", "cvu", "cbu", "coelsa", "operacion",
                 "transaccion", "identificacion", "codigo", "numero",
                 "referencia"})

\* /(comprobante|transferencia|motivo|mercado\s*pago|pagaste|enviaste|de\b|
\*   para\b|monto|importe|total)/i
KEY_NEAR(line) ==
  \/ HasWord(line, {"comprobante", "transferencia", "motivo", "pagaste",
                    "enviaste", "monto", "importe", "total"})
  \/ HasMercadoPago(line)
  \/ HasWordThenBoundary(line, {"de", "para"})

\* toFloatFlexible
toFloatFlexible(raw) == toNumberARS(Trim(raw))

\* pushCand(v, prio)
pushCand(v, prio) ==
  IF IsFiniteNumber(v) /\ AtLeast(v, 50) /\ AtMost(v, 10000000)
  THEN {[v |-> v, prio |-> prio]} ELSE {}

\* /\$\s*[0-9]/: the positions of the digits that follow a "$" and blanks
AfterCurrency(s) ==
  {k \in 1..Len(s) :
     /\ IsDigit(s[k])
     /\ \E i \in 1..(k - 1) :
          s[i] = "$" /\ \A x \in (i + 1)..(k - 1) : s[x] \in Blanks}

\* the m[1] of every match of /\$\s*([0-9][0-9.,\s]*)/g in a line
RE_CURRENCY_ANY(line) ==
  {SubSeq(line, j, j + RunLen(line, j, Digits \cup Separators \cup Blanks) - 1) :
     j \in AfterCurrency(line)}

\* the number of consecutive groups (separator, three digits) from position p
RECURSIVE GroupsFrom(_, _, _)
GroupsFrom(line, p, seps) ==
  IF /\ p + 3 <= Len(line)
     /\ line[p] \in seps
     /\ \A k \in (p + 1)..(p + 3) : IsDigit(line[k])
  THEN 1 + GroupsFrom(line, p + 4, seps)
  ELSE 0

\* (?:[.,]\d{1,2})? at position p: the numbers of decimals it can take
DecimalsAt(line, p, seps) ==
  {0} \cup {d \in 1..2 : /\ p + d <= Len(line)
                         /\ line[p] \in seps
                         /\ \A k \in (p + 1)..(p + d) : IsDigit(line[k])}

\* \b after a digit at position e, and before one at position i
BoundaryAfter(line, e) == e = Len(line) \/ ~IsWordChar(line[e + 1])
BoundaryBefore(line, i) == i = 1 \/ ~IsWordChar(line[i - 1])

\* where a number that starts at i can end: its digits and groups end at b
\* (the more groups first), then the decimals (the more first), then \b;
\* <<0, 0>> when nothing matches
FirstEnd(line, bases, decSeps) ==
  LET ends(b) == {b + (IF d = 0 THEN 0 ELSE d + 1) :
                    d \in DecimalsAt(line, b + 1, decSeps)}
      ok == UNION {{<<b, e>> : e \in {x \in ends(b) : BoundaryAfter(line, x)}} :
                     b \in bases}
  IN IF ok = {} THEN <<0, 0>>
     ELSE CHOOSE be \in ok :
            \A o \in ok : o[1] < be[1] \/ (o[1] = be[1] /\ o[2] <= be[2])

\* /\b([1-9][0-9]{0,2}(?:[.,\s][0-9]{3})+|[1-9][0-9]{4,})
\*   (?:[.,]\d{1,2})?\b/ tried at position i
RE_GROUPED_OR_LONG_At(line, i) ==
  LET r == RunLen(line, i, Digits)
      bases == IF r \in 1..3
               THEN {i + r - 1 + 4 * g :
                       g \in 1..GroupsFrom(line, i + r, Separators \cup {" "})}
               ELSE IF r >= 5 THEN {i + r - 1} ELSE {}
  IN IF line[i] \in Digits \ {"0"} /\ BoundaryBefore(line, i)
     THEN FirstEnd(line, bases, Separators) ELSE <<0, 0>>

\* the m[0] of every match of the /g regular expression, from position p on
RECURSIVE RE_GROUPED_OR_LONG(_, _)
RE_GROUPED_OR_LONG(line, p) ==
  IF p > Len(line) THEN {}
  ELSE LET be == RE_GROUPED_OR_LONG_At(line, p)
       IN IF be[2] = 0 THEN RE_GROUPED_OR_LONG(line, p + 1)
          ELSE {SubSeq(line, p, be[2])} \cup RE_GROUPED_OR_LONG(line, be[2] + 1)

\* if (!/[.,\s]/.test(raw)) { asInt = parseInt(raw, 10);
\*                            if (asInt >= 1900 && asInt <= 2099) continue; }
IsBareYear(raw) ==
  /\ \A k \in 1..Len(raw) : IsDigit(raw[k])
  /\ ValueOf(raw) >= 1900 /\ ValueOf(raw) <= 2099

\* the second pass taking every run of digits of the line as a candidate
SecondPassRawsAnyNumber(line) ==
  {SubSeq(line, i, i + RunLen(line, i, Digits) - 1) :
     i \in {k \in 1..Len(line) : IsDigit(line[k]) /\ BoundaryBefore(line, k)}}

\* the matches of the second pass that reach toFloatFlexible
SecondPassRaws(line) ==
  {raw \in RE_GROUPED_OR_LONG(line, 1) : ~IsBareYear(raw)}

\* the bonus of line idx: 3 - distance to the nearest line with a keyword,
\* within three lines
KeyBonus(lns, idx) ==
  LET near == {k \in 1..Len(lns) :
                 /\ k >= idx - 3 /\ k <= idx + 3
                 /\ KEY_NEAR(lns[k])}
      dist(k) == IF k >= idx THEN k - idx ELSE idx - k
  IN IF near = {} THEN 0
     ELSE 3 - dist(CHOOSE k \in near : \A k2 \in near : dist(k) <= dist(k2))

\* a <= b on Numbers
FracKey(v) == ValueOf(SubSeq(v.frac \o <<"0", "0", "0", "0", "0", "0", "0", "0">>, 1, 8))
NumberLeq(a, b) ==
  a.int < b.int \/ (a.int = b.int /\ FracKey(a) <= FracKey(b))

\* the pool sorted by value alone
FirstOfPoolByValue(pool) ==
  CHOOSE c \in pool : \A o \in pool : NumberLeq(o.v, c.v)

\* pool.sort((a, b) => (b.prio - a.prio) || (b.v - a.v)); pool[0]
FirstOfPool(pool) ==
  CHOOSE c \in pool :
    \A o \in pool : o.prio < c.prio \/ (o.prio = c.prio /\ NumberLeq(o.v, c.v))

\* findBestAmount(text) for a text without "\r", typographic quotes, NBSP, a
\* lone letter S or ARS: the replacements that build `norm` leave it as it is
findBestAmount(text) ==
  LET lns == SplitLines(text)
      Best(candidates) ==
        LET big == {c \in candidates : AtLeast(c.v, 1000)}
            pool == IF big # {} THEN big ELSE candidates
        IN IF candidates = {} THEN NoNumber ELSE FirstOfPool(pool).v
      \* the second pass runs when the first one found no candidate
      Passes(first, second) == Best(IF first = {} THEN second ELSE first)
  IN IF text = <<>> THEN NoNumber
     ELSE Passes(UNION {UNION {pushCand(toFloatFlexible(raw), 6) :
                                 raw \in RE_CURRENCY_ANY(lns[i])} :
                          i \in {k \in 1..Len(lns) :
                                   /\ ~BAD_CTX(lns[k])
                                   /\ Includes(lns[k], "$")}},
                 UNION {UNION {pushCand(toFloatFlexible(raw),
                                        2 + KeyBonus(lns, i)) :
                                 raw \in SecondPassRaws(lns[i])} :
                          i \in {k \in 1..Len(lns) : ~BAD_CTX(lns[k])}})

\* ---- the grouped-number scan of the pipeline (rule 1) ----------------------------
\* /(comprobante|transferencia|motivo|mercado\s*pago|pagaste|de\b|para\b|monto|
\*   importe|total)/i
KEY_NEAR_SAFETY(line) ==
  \/ HasWord(line, {"comprobante", "transferencia", "motivo", "pagaste",
                    "monto", "importe", "total"})
  \/ HasMercadoPago(line)
  \/ HasWordThenBoundary(line, {"de", "para"})

\* /\$?\s*([1-9]\d{0,2}(?:[.\s]\d{3})+)(?:[.,]\d{1,2})?\b/ with its digits
\* from position j on; no \b in front, so j may lie inside a run of digits
RE_GROUPED_At(line, j) ==
  LET r == RunLen(line, j, Digits)
      bases == IF r \in 1..3
               THEN {j + r - 1 + 4 * g :
                       g \in 1..GroupsFrom(line, j + r, {".", " "})}
               ELSE {}
  IN IF line[j] \in Digits \ {"0"}
     THEN FirstEnd(line, bases, Separators) ELSE <<0, 0>>

\* the m[1] of every match of the /g regular expression, from position p on
RECURSIVE RE_GROUPED(_, _)
RE_GROUPED(line, p) ==
  IF p > Len(line) THEN {}
  ELSE LET be == RE_GROUPED_At(line, p)
       IN IF be[2] = 0 THEN RE_GROUPED(line, p + 1)
          ELSE {SubSeq(line, p, be[1])} \cup RE_GROUPED(line, be[2] + 1)

\* the greatest Number of a set; NoNumber for the empty set
NumberMax(vs) ==
  IF vs = {} THEN NoNumber
  ELSE CHOOSE v \in vs : \A o \in vs : NumberLeq(o, v)

\* maxBig: the greatest grouped number of 1000 to 10,000,000 on the lines that
\* pass the filters
SafetyMaxBig(combined) ==
  LET lns == SplitLines(combined)
      raws == UNION {RE_GROUPED(lns[i], 1) :
                       i \in {k \in 1..Len(lns) :
                                /\ ~BAD_CTX(lns[k])
                                /\ \/ Includes(lns[k], "$")
                                   \/ KEY_NEAR_SAFETY(lns[k])}}
      kept == {raw \in raws :
                 LET len == Len(Keep(raw, Digits))
                 IN ~(len >= 15 \/ len = 22)}
  IN NumberMax({v \in {toNumberARS(raw) : raw \in kept} :
                  /\ IsFiniteNumber(v)
                  /\ AtLeast(v, 1000) /\ AtMost(v, 10000000)})

\* ---- specification of the amount finder -------------------------------------------
Rep(ch, n) == [i \in 1..n |-> ch]

\* the lines of the texts: a printed year, amounts with and without "$", and
\* 22-digit tokens (a CVU) bare, after "cvu" and after "$"
AmountLines ==
  {<<"año", " ", "2", "0", "2", "4", " ", "factura", " ", "1", "9", "9", "9">>,
   <<"2", "0", "2", "4">>,
   <<"$", " ">> \o Rep("0", 18) \o <<"7", "5", "0", "0">>,
   <<"cvu", " ">> \o Rep("0", 18) \o <<"7", "5", "0", "0">>,
   Rep("1", 22),
   <<"monto", " ", "$", " ", "7", ".", "5", "0", "0">>,
   <<"total", " ", "1", "2", " ", "5", "0", "0">>,
   <<"1", "2", "3", "4", "5">>,
   <<"$", " ", "7", "5">>,
   <<"$", " ", "1", ".", "2", "3", "4", ",", "5", "6">>,
   <<"9", "8", ".", "0", "0", "0">>}

MaxTextLines == 2

RECURSIVE JoinLines(_)
JoinLines(ls) ==
  IF Len(ls) = 1 THEN ls[1] ELSE ls[1] \o <<"\n">> \o JoinLines(Tail(ls))

AmountTexts ==
  {JoinLines(ls) : ls \in UNION {[1..n -> AmountLines] : n \in 1..MaxTextLines}}

\* one call findBestAmount(text)
AmountCalled ==
  /\ pureCall = {}
  /\ \E text \in AmountTexts :
       pureCall' = {[fn |-> "findBestAmount", text |-> text,
                     out |-> findBestAmount(text)]}
  /\ UNCHANGED <<lifeVars, seenMsgs, msgs, delivered, h, chats, agenda, leads,
                 convs, uploads, capi, api, ocr, storeErrs, ocrCall>>

\* one run of rule 1 of the pipeline on a combined text
SafetyCalled ==
  /\ pureCall = {}
  /\ \E text \in AmountTexts :
       pureCall' = {[fn |-> "safety", text |-> text,
                     out |-> SafetyMaxBig(text)]}
  /\ UNCHANGED <<lifeVars, seenMsgs, msgs, delivered, h, chats, agenda, leads,
                 convs, uploads, capi, api, ocr, storeErrs, ocrCall>>

NextAmount ==
  \/ AmountCalled
  \/ SafetyCalled

SpecAmount == Init /\ [][NextAmount]_vars

\* ---- parseByTemplate ----------------------------------------------------------------
\* s.replace(/\s+/g, " "): the first blank of every run stays, as a space
CollapseBlanks(s) ==
  LET kept == [i \in 1..Len(s) |->
                 IF s[i] \notin Blanks THEN s[i]
                 ELSE IF i > 1 /\ s[i - 1] \in Blanks THEN "" ELSE " "]
  IN SelectSeq(kept, LAMBDA ch : ch # "")

\* _normTextForTpl: every run of blanks, line ends included, becomes one
\* space, so that the result is a single line
normTextForTpl(s) == Trim(CollapseBlanks(s))

\* a sequence of words and single spaces, anywhere in the text
HasPhrase(s, phrase) ==
  \E i \in 1..(Len(s) - Len(phrase) + 1) :
     SubSeq(s, i, i + Len(phrase) - 1) = phrase

\* /w1\s*w2/ (least = 0) and /w1\s+w2/ (least = 1)
HasWordsApart(s, w1, w2, least) ==
  \E i \in 1..Len(s) :
     /\ s[i] = w1
     /\ LET n == RunLen(s, i + 1, Blanks)
        IN n >= least /\ i + 1 + n <= Len(s) /\ s[i + 1 + n] = w2

\* /\bw\b/
HasWholeWord(s, w) ==
  \E i \in 1..Len(s) :
     /\ s[i] = w
     /\ (i = 1 \/ ~IsWordChar(s[i - 1]))
     /\ (i = Len(s) \/ ~IsWordChar(s[i + 1]))

ComprobanteDeTransferencia == <<"comprobante", " ", "de", " ", "transferencia">>

\* TPLS, in the order of the array
TplIds == 1..7

TplProvider(k) ==
  CASE k = 1 -> "Mercado Pago"
    [] k = 2 -> "Naranja X"
    [] k = 3 -> "Prex"
    [] k = 4 -> "Ualá"
    [] k = 5 -> "Banco Naci[oó]n|BNA"
    [] k = 6 -> "Santander"
    [] k = 7 -> "Galicia"

\* tpl.test.test(all)
TplTest(k, all) ==
  CASE k = 1 -> \/ HasMercadoPago(all)
                \/ HasWordsApart(all, "mercado", "libre", 0)
                \/ HasPhrase(all, <<"codigo", " ", "de", " ", "identificacion">>)
                \/ HasPhrase(all, ComprobanteDeTransferencia)
                \/ HasWord(all, {"pagaste"})
    [] k = 2 -> HasWordsApart(all, "naranja", "x", 0) \/ HasWord(all, {"enviaste"})
    [] k = 3 -> HasWholeWord(all, "prex") \/ HasPhrase(all, ComprobanteDeTransferencia)
    [] k = 4 -> \/ HasWordThenBoundary(all, {"uala"})
                \/ HasPhrase(all, <<"transferencia", " ", "realizada">>)
                \/ HasWord(all, {"comprobante"})
    [] k = 5 -> \/ HasWordsApart(all, "banco", "nacion", 1)
                \/ HasWordThenBoundary(all, {"bna"})
                \/ HasPhrase(all, <<"bna", "+">>)
    [] k = 6 -> HasWord(all, {"santander"})
    [] k = 7 -> HasWord(all, {"galicia"})

\* tpl.amountLine.test(ln)
TplAmountLine(k, ln) ==
  HasWordThenBoundary(ln,
    CASE k = 1 -> {"pagaste", "transferiste", "monto", "importe", "total"}
      [] k = 2 -> {"enviaste", "monto", "importe", "total"}
      [] k = 3 -> {"monto", "importe", "total", "enviaste", "transferiste"}
      [] k = 4 -> {"monto", "importe", "total", "transferiste", "transferencia"}
      [] k \in 5..7 -> {"monto", "importe", "total"})

\* where the number that starts at j ends for
\* ([0-9]{1,3}(?:[ .,][0-9]{3})*(?:[.,][0-9]{1,2})?|[0-9]+(?:[.,][0-9]{1,2})?):
\* nothing follows the group, so the first alternative always matches, with
\* at most three leading digits
AmountTokenEnd(s, j) ==
  LET r == RunLen(s, j, Digits)
      lead == IF r > 3 THEN 3 ELSE r
      base == j + lead - 1 + 4 * GroupsFrom(s, j + lead, Separators \cup {" "})
      decs == DecimalsAt(s, base + 1, Separators)
      d == CHOOSE x \in decs : \A y \in decs : y <= x
  IN base + (IF d = 0 THEN 0 ELSE d + 1)

\* _extractAmountFromLine: the first "$" that a number follows
extractAmountFromLine(line) ==
  LET starts == AfterCurrency(line)
      j == CHOOSE x \in starts : \A y \in starts : x <= y
  IN IF starts = {} THEN NoNumber
     ELSE toNumberARS(SubSeq(line, j, AmountTokenEnd(line, j)))

Finite(vs) == {v \in vs : IsFiniteNumber(v)}

\* best of one template: the greatest amount of the lines with an amount word
\* or a "$"; when that is missing or 0, of every "$" number of the text
TplBest(k, all, lns) ==
  LET Best(perLine, any) ==
        IF IsFiniteNumber(NumberMax(perLine)) /\ Positive(NumberMax(perLine))
        THEN NumberMax(perLine)
        ELSE NumberMax(perLine \cup any)
  IN Best(Finite({extractAmountFromLine(lns[i]) :
                    i \in {x \in 1..Len(lns) :
                             \/ TplAmountLine(k, lns[x])
                             \/ Includes(lns[x], "$")}}),
          Finite({toNumberARS(SubSeq(all, j, AmountTokenEnd(all, j))) :
                    j \in AfterCurrency(all)}))

NotMatched == [matched |-> FALSE, provider |-> NULL, amount |-> NoNumber]

\* the registry walked from its last entry
LastTpl(hits) == CHOOSE k \in hits : \A k2 \in hits : k2 <= k

\* for (const tpl of TPLS): of the entries that return, the first in registry
\* order
FirstTpl(hits) == CHOOSE k \in hits : \A k2 \in hits : k <= k2

\* parseByTemplate: the first template whose test matches and that finds an
\* amount above 0
parseByTemplate(text) ==
  LET norm == normTextForTpl(text)
      First(best) ==
        LET hits == {k \in TplIds : /\ TplTest(k, norm)
                                    /\ IsFiniteNumber(best[k])
                                    /\ Positive(best[k])}
            tpl == FirstTpl(hits)
        IN IF hits = {} THEN NotMatched
           ELSE [matched |-> TRUE, provider |-> TplProvider(tpl),
                 amount |-> best[tpl]]
  IN IF text = <<>> THEN NotMatched
     ELSE First([k \in TplIds |-> TplBest(k, norm, SplitLines(norm))])

\* ---- specification of the template parser ----------------------------------------
\* the lines of the texts handed to parseByTemplate
TplLines ==
  {<<"mercado", " ", "pago">>,
   <<"galicia">>,
   <<"$", " ", "1", "0", "0">>,
   <<"$", " ", "7", ".", "5", "0", "0">>,
   <<"monto", " ", "$", " ", "2", "5", "0">>,
   <<"total", " ", "9", "0", "0">>}

MaxTplLines == 3

TplTexts ==
  {JoinLines(ls) : ls \in UNION {[1..n -> TplLines] : n \in 1..MaxTplLines}}

\* one call parseByTemplate(text)
TemplateParsed ==
  /\ pureCall = {}
  /\ \E text \in TplTexts :
       pureCall' = {[fn |-> "parseByTemplate", text |-> text,
                     out |-> parseByTemplate(text)]}
  /\ UNCHANGED <<lifeVars, seenMsgs, msgs, delivered, h, chats, agenda, leads,
                 convs, uploads, capi, api, ocr, storeErrs, ocrCall>>

NextTemplate == TemplateParsed

SpecTemplate == Init /\ [][NextTemplate]_vars

\* ---- scoreReceiptText ---------------------------------------------------------------
\* the tests of scoreReceiptText on the text t with its blanks collapsed
ReceiptSignals ==
  {"comprobante de transferencia", "enviaste", "hasComprobante", "hasTransfer",
   "hasMercadoPago", "hasKw", "hasBank", "hasId", "parties",
   "hasCurrencySymbol", "hasThousandsPattern"}

\* /(operaci[oó]n|transacci[oó]n|c[oó]digo|identificaci[oó]n)\s*[:\-]?\s*[A-Z0-9\-]+/i:
\* the word, then a letter, a digit or "-", after blanks and an optional ":"
hasId(t) ==
  \E i \in 1..Len(t) :
     /\ t[i] \in {"operacion", "transaccion", "codigo", "identificacion"}
     /\ LET j == i + 1 + RunLen(t, i + 1, Blanks)
            k == IF j <= Len(t) /\ t[j] = ":"
                 THEN j + 1 + RunLen(t, j + 1, Blanks) ELSE j
        IN k <= Len(t) /\ (t[k] = "-" \/ IsWordChar(t[k]))

\* /\b[1-9]\d{0,2}(?:[.\s]\d{3})+(?:[,.\s]\d{1,2})?\b/
hasThousandsPattern(t) ==
  \E i \in 1..Len(t) :
     /\ t[i] \in Digits \ {"0"}
     /\ BoundaryBefore(t, i)
     /\ LET r == RunLen(t, i, Digits)
            bases == IF r \in 1..3
                     THEN {i + r - 1 + 4 * g :
                             g \in 1..GroupsFrom(t, i + r, {".", " "})}
                     ELSE {}
        IN FirstEnd(t, bases, Separators \cup {" "}) # <<0, 0>>

HasSignal(sig, t) ==
  CASE sig = "comprobante de transferencia" ->
         HasPhrase(t, ComprobanteDeTransferencia)
    [] sig = "enviaste" -> HasWord(t, {"enviaste"})
    [] sig = "hasComprobante" -> HasWord(t, {"comprobante"})
    [] sig = "hasTransfer" -> HasWord(t, {"transferencia"})
    [] sig = "hasMercadoPago" -> HasMercadoPago(t)
    [] sig = "hasKw" ->
         \/ HasWord(t, {"pagaste", "recibo"})
         \/ HasPhrase(t, <<"pago", " ", "realizado">>)
         \/ HasPhrase(t, <<"numero", " ", "de", " ", "operacion">>)
         \/ HasPhrase(t, <<"codigo", " ", "de", " ", "identificacion">>)
    [] sig = "hasBank" ->
         \/ HasMercadoPago(t)
         \/ HasWord(t, {"uala", "santander", "galicia", "macro", "bbva", "hsbc",
                        "icbc", "nacion", "bna"})
    [] sig = "hasId" -> hasId(t)
    [] sig = "parties" -> HasWord(t, {"cuit", "cvu", "cbu", "beneficiario"})
    [] sig = "hasCurrencySymbol" -> Includes(t, "$")
    [] sig = "hasThousandsPattern" -> hasThousandsPattern(t)

SignalsOf(t) == {sig \in ReceiptSignals : HasSignal(sig, t)}

\* a scorer in which the account identifiers count against a receipt
WeightWithPenalty(sig) ==
  CASE sig \in {"comprobante de transferencia", "hasComprobante", "hasTransfer",
                "hasMercadoPago", "hasThousandsPattern"} -> 2
    [] sig = "parties" -> -1
    [] OTHER -> 1

\* what a signal adds to the score
Weight(sig) ==
  CASE sig \in {"comprobante de transferencia", "hasComprobante", "hasTransfer",
                "hasMercadoPago", "hasThousandsPattern"} -> 2
    [] OTHER -> 1

RECURSIVE SumWeights(_)
SumWeights(sigs) ==
  IF sigs = {} THEN 0
  ELSE LET sig == CHOOSE x \in sigs : TRUE
       IN Weight(sig) + SumWeights(sigs \ {sig})

\* the score for the signals of a text, its amount and whether a template
\* matched; the thousands pattern counts with an amount of 1000 or more
ScoreOf(sigs, amount, matched) ==
  LET hasAmount == IsFiniteNumber(amount) /\ Positive(amount)
      counted == {sig \in sigs :
                    sig = "hasThousandsPattern"
                      => (IsFiniteNumber(amount) /\ AtLeast(amount, 1000))}
  IN SumWeights(counted) + (IF hasAmount THEN 3 ELSE 0)
       + (IF matched /\ hasAmount THEN 3 ELSE 0)

scoreReceiptText(text) ==
  LET t == Trim(CollapseBlanks(text))
      Scored(tpl, amountHeur, fallback) ==
        LET amountTpl == tpl.amount
            amount0 == IF IsFiniteNumber(amountTpl) THEN amountTpl ELSE amountHeur
            amount == IF /\ IsFiniteNumber(amount0) /\ Positive(amount0)
                         /\ Below(amount0, 1000)
                         /\ fallback.matched /\ ~AtMost(fallback.amount, 1000)
                      THEN fallback.amount ELSE amount0
            hasAmount == IsFiniteNumber(amount) /\ Positive(amount)
        IN [score |-> ScoreOf(SignalsOf(t), amount, tpl.matched),
            amount |-> IF hasAmount THEN amount ELSE NoNumber,
            provider |-> tpl.provider]
  IN Scored(parseByTemplate(text), findBestAmount(text), parseByTemplate(text))

\* ---- specification of the scorer ------------------------------------------------------
\* the lines of the receipts
ReceiptLines ==
  {ComprobanteDeTransferencia,
   <<"banco", " ", "galicia">>,
   <<"monto", " ", "$", " ", "7", ".", "5", "0", "0">>,
   <<"santander">>,
   <<"mercado", " ", "pago">>,
   <<"enviaste", " ", "$", " ", "7", "5">>,
   <<"cvu", " ">> \o Rep("0", 18) \o <<"7", "5", "0", "0">>}

MaxReceiptLines == 3

ReceiptTexts ==
  {JoinLines(ls) : ls \in UNION {[1..n -> ReceiptLines] : n \in 1..MaxReceiptLines}}

\* one call scoreReceiptText(text)
TextScored ==
  /\ pureCall = {}
  /\ \E text \in ReceiptTexts :
       pureCall' = {[fn |-> "scoreReceiptText", text |-> text,
                     out |-> scoreReceiptText(text)]}
  /\ UNCHANGED <<lifeVars, seenMsgs, msgs, delivered, h, chats, agenda, leads,
                 convs, uploads, capi, api, ocr, storeErrs, ocrCall>>

NextScore == TextScored

SpecScore == Init /\ [][NextScore]_vars

\* the amounts a text can come with: none, below 1000, 1000 or more; a
\* template only matches with an amount
AmountOutcomes ==
  {o \in [amount : {NoNumber, Whole(75), Whole(7500)}, matched : BOOLEAN] :
     o.matched => IsFiniteNumber(o.amount)}

\* the score of one set of signals
SignalsScored ==
  /\ pureCall = {}
  /\ \E sigs \in SUBSET ReceiptSignals, o \in AmountOutcomes :
       pureCall' = {[fn |-> "ScoreOf", signals |-> sigs, amount |-> o.amount,
                     matched |-> o.matched,
                     score |-> ScoreOf(sigs, o.amount, o.matched)]}
  /\ UNCHANGED <<lifeVars, seenMsgs, msgs, delivered, h, chats, agenda, leads,
                 convs, uploads, capi, api, ocr, storeErrs, ocrCall>>

NextSignals == SignalsScored

SpecSignals == Init /\ [][NextSignals]_vars

\* ---- the pipeline on a caption and an OCR text -------------------------------------
\* [cap, ocrText].filter(Boolean).join("\n"); cap is trimmed
Combined(cap, ocrText) ==
  LET parts == SelectSeq(<<Trim(cap), ocrText>>, LAMBDA p : p # <<>>)
  IN IF parts = <<>> THEN <<>> ELSE JoinLines(parts)

\* the amount of a Number for the rules below; the receipts of the
\* specification print whole pesos
AmountOf(v) == IF IsFiniteNumber(v) THEN v.int ELSE NoAmount

\* score and amount after scoreReceiptText and after each of the rules 1) to 5)
PipelineSteps(mimetype, score0, amount0, maxBig, hint, isMP, fallbackAmount) ==
  LET sa0 == [score |-> score0, amount |-> amount0]
      sa1 == SafetyRule(sa0, maxBig)
      sa2 == TripleZeroRule(sa1, hint)
      sa3 == MpRule(sa2, isMP, 10)
      sa4 == IF NeedsFallback(sa3, isMP, mimetype)
             THEN FallbackRule(sa3, fallbackAmount) ELSE sa3
      sa5 == MpRule(sa4, isMP, 12)
  IN <<sa0, sa1, sa2, sa3, sa4, sa5>>

\* rules 1) to 5) on the combined text and what scoreReceiptText gave for it
Pipeline(combined, scored, mimetype, fallbackAmount) ==
  LET IS_MP == HasMercadoPago(combined)
      steps == PipelineSteps(mimetype, scored.score, AmountOf(scored.amount),
                             AmountOf(SafetyMaxBig(combined)),
                             RE_TRIPLE_ZERO_HINT(combined), IS_MP, fallbackAmount)
  IN [steps |-> steps,
      fallbackCalled |-> NeedsFallback(steps[4], IS_MP, mimetype),
      out |-> steps[6]]

\* captions, OCR texts and readings of tryExtractAmountFromImage
Captions == {<<>>, <<"mercado", " ", "pago">>, <<"pago">>}

OcrTexts ==
  {<<>>,
   <<"mercado", " ", "pago">>,
   <<"mercado", " ", "pago", "\n", "$", " ", "1", "2">>,
   <<"mercado", " ", "pago", "\n", "$", " ", "7", "5">>,
   <<"mercado", " ", "pago", "\n", "$", " ", "2", "5", ".", "0", "0", "0">>,
   <<"monto", " ", "$", " ", "7", ".", "5", "0", "0">>,
   <<"$", " ", "7", "5", "\n", ".", "0", "0", "0">>,
   <<"mercado", " ", "pago", "\n", "$", " ", "7", "5", "\n", ".", "0", "0", "0">>,
   <<"pagaste", " ", "$", " ", "7", "5">>}

FallbackReadings == {NoAmount, 12, 25000}

\* one image or PDF through the pipeline: the texts are combined and scored,
\* the rules run and the gate decides
PipelineRun ==
  /\ pureCall = {}
  /\ \E cap \in Captions, ocrText \in OcrTexts,
        mimetype \in ImageMimes \cup PdfMimes, reading \in FallbackReadings :
       \E combined \in {Combined(cap, ocrText)} :
          \E scored \in {scoreReceiptText(combined)} :
             \E run \in {Pipeline(combined, scored, mimetype, reading)} :
                pureCall' = {[fn |-> "pipeline", cap |-> cap, ocrText |-> ocrText,
                              mimetype |-> mimetype, reading |-> reading,
                              provider |-> scored.provider,
                              steps |-> run.steps,
                              fallbackCalled |-> run.fallbackCalled,
                              out |-> run.out, accepted |-> Accept(run.out)]}
  /\ UNCHANGED <<lifeVars, seenMsgs, msgs, delivered, h, chats, agenda, leads,
                 convs, uploads, capi, api, ocr, storeErrs, ocrCall>>

NextPipeline == PipelineRun

SpecPipeline == Init /\ [][NextPipeline]_vars

\* ---- rules 1) to 5) on their own ---------------------------------------------
\* what scoreReceiptText can hand to the rules (any score; no amount, a small
\* or a large one), what the grouped-number scan and the visual fallback find
RuleScores == {0, 3, 5, 11, 13}
RuleAmounts == {NoAmount, 75, 5000}
RuleMaxBigs == {NoAmount, 25000}
RuleReadings == {NoAmount, 12, 25000}

\* the rules run on one scored receipt
RulesRun ==
  /\ pureCall = {}
  /\ \E mimetype \in ImageMimes \cup PdfMimes, score0 \in RuleScores,
        amount0 \in RuleAmounts, maxBig \in RuleMaxBigs, hint \in BOOLEAN,
        isMP \in BOOLEAN, reading \in RuleReadings :
       \E steps \in {PipelineSteps(mimetype, score0, amount0, maxBig, hint,
                                   isMP, reading)} :
          pureCall' = {[fn |-> "rules", mimetype |-> mimetype, maxBig |-> maxBig,
                        hint |-> hint, isMP |-> isMP, reading |-> reading,
                        steps |-> steps, accepted |-> Accept(steps[6])]}
  /\ UNCHANGED <<lifeVars, seenMsgs, msgs, delivered, h, chats, agenda, leads,
                 convs, uploads, capi, api, ocr, storeErrs, ocrCall>>

NextRules == RulesRun

SpecRules == Init /\ [][NextRules]_vars

\* ---- tryExtractAmountFromImage ----------------------------------------------
\* the tiles of the grid that are cut and read, in scanning order (row by
\* row); the 24 tiles are scaled down
MaxTiles == 2
\* the three pre-process variants, in the order of `pipelines`
Pipelines == 1..3
\* what readPiece returns for one variant of one tile: null or the positive
\* amount it read (a tile that is too small or that sharp rejects reads null)
TileReadings == {NoAmount, 12, 25000}
Grids == [1..MaxTiles -> [Pipelines -> TileReadings]]

\* for (const make of pipelines): the first positive reading of the tile
\* goes into best and ends the tile
ReadTile(best, tile) ==
  LET hits == {p \in Pipelines : IsFinite(tile[p]) /\ tile[p] > 0}
      first == CHOOSE p \in hits : \A q \in hits : p <= q
  IN IF hits = {} THEN best
     ELSE IF IsFinite(best) /\ best # 0 THEN Max(best, tile[first])
     ELSE tile[first]

\* for (r ...; r < ROWS && !best) for (c ...; c < COLS && !best)
RECURSIVE ScanTiles(_, _, _)
ScanTiles(grid, i, best) ==
  IF i > MaxTiles \/ (IsFinite(best) /\ best # 0) THEN best
  ELSE ScanTiles(grid, i + 1, ReadTile(best, grid[i]))

\* tryExtractAmountFromImage({ base64, mimetype }) with sharp loaded
tryExtractAmountFromImage(mimetype, grid) ==
  IF mimetype \notin ImageMimes THEN NoAmount
  ELSE ScanTiles(grid, 1, NoAmount)

FallbackCalled ==
  /\ pureCall = {}
  /\ \E mimetype \in ImageMimes \cup PdfMimes, grid \in Grids :
       pureCall' = {[fn |-> "tryExtractAmountFromImage", mimetype |-> mimetype,
                     grid |-> grid,
                     out |-> tryExtractAmountFromImage(mimetype, grid)]}
  /\ UNCHANGED <<lifeVars, seenMsgs, msgs, delivered, h, chats, agenda, leads,
                 convs, uploads, capi, api, ocr, storeErrs, ocrCall>>

NextFallback == FallbackCalled

SpecFallback == Init /\ [][NextFallback]_vars

\* ---- claims about the inbound router -------------------------------------------
RECURSIVE Copies(_, _)
Copies(table, rows) ==
  IF rows = {} THEN 0
  ELSE LET r == CHOOSE x \in rows : TRUE
       IN CopiesIn(r, table) + Copies(table, rows \ {r})

\* number of rows a table holds for a message id / for a (project, contact)
RowsOfMessage(table, m) ==
  Copies(table, {r \in BagToSet(table) : r.message = m})
RowCount(table, p, c) == Copies(table, RowsFor(table, p, c))

Finished == {"skipped", "done", "ignored", "processed"}
SavingPcs == {"upload", "conv", "agendaConv", "agendaUpd", "capiPurchase"}
\* positions whose completion is a write to chats, agenda, leads, the bucket
\* or conversions; and the positions before a handler's first write
WritePcs == {"chat", "agenda", "leadIns", "trigger", "upload", "conv",
             "agendaConv", "agendaUpd"}
BeforeFirstWrite == {"idle", "skipped", "project", "projectTagged", "page", "chat"}

C3_AgendaNeverBackToNew ==
  [][\A k \in DOMAIN agenda :
        agenda[k] = "conversion"
        => (k \in DOMAIN agenda' /\ agenda'[k] = "conversion")]_vars

C5_WritesInDeliveryOrder ==
  [][\A m1, m2 \in MsgIds :
        (m1 < m2 /\ h[m1].pc \in WritePcs /\ h'[m1].pc # h[m1].pc)
        => h[m2].pc \in BeforeFirstWrite]_vars

\* ---- claims about the line lifecycle ---------------------------------------

\* C6: in every reachable registry state, a line whose phone is non-null has
\* status ready.
C6_PhoneOnlyWhenReady ==
  \A l \in DOMAIN lines : lines[l].phone # NULL => lines[l].status = "ready"

\* C7: in every reachable registry state, a line whose stored QR
\* (lastQrDataUrl) is non-null has status qr.
C7_QrOnlyWhileStatusQr ==
  \A l \in DOMAIN lines :
     lines[l].lastQrDataUrl # NULL => lines[l].status = "qr"

\* C8: when POST /lines/:id/restart answers {ok:true}, the auth directory is
\* purged and the registry entry of the line holds a fresh client that has
\* been built, attached and initialized (and is not torn down).
C8_RestartRebuildsClient ==
  [][\A l \in Lines :
        (restart[l].pc \in {"ensure", "attaching"} /\ restart'[l].pc = "idle")
        => /\ ~authDir'[l]
           /\ l \in DOMAIN lines'
           /\ lines'[l].client # NONE
           /\ clients'[lines'[l].client].phase = "live"
           /\ ~clients'[lines'[l].client].destroyed]_vars

\* C9: after a client emitted `disconnected`, and until the delayed restart
\* runs, the only status change observable on its line is disconnected ->
\* restarting; the line shows no other status in between.
C9_DisconnectSequence ==
  [][\A c \in ClientIds :
        (/\ discTask[c].pc \in {"close", "upsert", "timer"}
         /\ clients[c].line \in DOMAIN lines
         /\ clients[c].line \in DOMAIN lines'
         /\ lines'[clients[c].line].status # lines[clients[c].line].status)
        => (/\ lines[clients[c].line].status = "disconnected"
            /\ lines'[clients[c].line].status = "restarting")]_vars

LogoutReasons ==
  {<<"L", "O", "G", "O", "U", "T">>, <<"L", "o", "g", "o", "u", "t">>}

C12_ProjectIdImmutable ==
  [][\A l \in DOMAIN lines :
        (lines[l].project_id # NULL /\ l \in DOMAIN lines')
        => lines'[l].project_id = lines[l].project_id]_vars

\* C17: whenever POST /lines/:id/qr answers while the line shows a QR (the
\* registry entry has status qr and holds the QR produced for it), the answer
\* carries that QR: qr is null in the answer only if no QR was produced.
C17_QrRouteAnswersCurrentQr ==
  [][\A l \in Lines :
        (qrReq[l].pc \in {"idle", "attaching", "poll"} /\ qrReq'[l].pc = "idle"
           /\ qrReq'[l].calls > 0 /\ qrReq'[l] # qrReq[l]
           /\ l \in DOMAIN lines'
           /\ lines'[l].status = "qr" /\ lines'[l].lastQrDataUrl # NULL)
        => qrReq'[l].res.qr = lines'[l].lastQrDataUrl]_vars

\* C19: every payload upserted into whatsapp_sessions carries a non-null
\* project_id.
C19_SessionUpsertsCarryProject == NULL \notin sessionUpserts

\* ---- claims about error handling and the receipt pipeline ----------------------

C14_NoSaveWithoutProject ==
  /\ \A r \in BagToSet(convs) : r.project_id # NULL
  /\ \A u \in uploads : u.project_id # NULL

\* the mimetypes the receipt pipeline takes
AcceptedMimes == {"image/jpeg", "image/png", "image/webp", "application/pdf"}

\* C15: ocrFromMedia is called, and an upload or a conversion row made, only
\* for a message from an individual chat that the line did not send itself and
\* whose media has an accepted mimetype; a group message or a message of the
\* line itself never gets past the filters: it leaves no chat, lead or
\* conversion row, and the agenda changes only in a step of the handler of an
\* individual inbound message or of POST /api/chats/new.
C15_PipelineOnlyForInboundReceipts ==
  /\ [](
         /\ \A o \in ocr :
             /\ msgs[o.message].from = "@c.us"
             /\ ~msgs[o.message].fromMe
             /\ o.mimetype \in AcceptedMimes
         /\ \A r \in BagToSet(convs) :
              \E o \in ocr : o.message = r.message /\ o.mimetype = r.file_mime
         /\ \A u \in uploads : \E o \in ocr : o.message = u.message
         /\ \A m \in MsgIds :
              /\ (h[m].pc \in SavingPcs \cup {"ignored"})
                 => (\E o \in ocr : o.message = m)
              /\ (msgs[m] # NoMsg /\ (msgs[m].from # "@c.us" \/ msgs[m].fromMe))
                 => /\ h[m].pc \in {"idle", "skipped"}
                    /\ RowsOfMessage(chats, m) = 0
                    /\ RowsOfMessage(leads, m) = 0
                    /\ RowsOfMessage(convs, m) = 0)
  /\ [][(agenda' # agenda)
          => \/ api.pc = "agenda"
             \/ \E m \in MsgIds :
                  /\ msgs[m].from = "@c.us" /\ ~msgs[m].fromMe
                  /\ h[m].pc \in {"agenda", "agendaConv", "agendaUpd"}
                  /\ h'[m].pc # h[m].pc]_vars

\* C15 witness: a group message was dropped by the filters and a PDF receipt
\* of an individual chat went through OCR and left a conversion row
C15_Witness ==
  \E m1, m2 \in MsgIds :
     /\ msgs[m1].from = "@g.us"
     /\ h[m1].pc = "skipped"
     /\ [message |-> m2, mimetype |-> "application/pdf"] \in ocr
     /\ RowsOfMessage(convs, m2) = 1

\* C16: POST /api/chats/new answers 400 without writing when project_id or
\* contact is missing; when the chat insert fails it answers 500 insert_failed
\* and goes on neither to the contact name nor to the agenda; it answers
\* {ok:true} only at the end of a request whose chat row was inserted.
C16_ApiChatsNewAnswers ==
  /\ []((api.pc \in {"name", "agenda"})
          => [project_id |-> api.project_id, contact |-> api.contact,
              message |-> ApiMessage] \in BagToSet(chats))
  /\ [][/\ (api.pc = "idle" /\ api'.calls # api.calls)
            => /\ chats' = chats /\ agenda' = agenda
               /\ \/ api'.pc = "idle" /\ api'.res = "400"
                  \/ /\ api'.pc = "chat" /\ api'.res = NULL
                     /\ api'.project_id # NULL /\ api'.contact # NULL
        /\ (api.pc = "chat" /\ api'.pc # "chat")
            => \/ /\ RowsOfMessage(chats', ApiMessage)
                        = RowsOfMessage(chats, ApiMessage) + 1
                  /\ api'.pc \in {"name", "agenda"} /\ api'.res = NULL
               \/ /\ chats' = chats /\ agenda' = agenda
                  /\ api'.pc = "idle" /\ api'.res = "500 insert_failed"
        /\ (api'.res = "200 ok" /\ api.res # "200 ok")
            => /\ api.pc = "agenda"
               /\ [project_id |-> api.project_id, contact |-> api.contact,
                   message |-> ApiMessage] \in BagToSet(chats)]_vars

\* C16 witness: a request whose chat insert failed was answered 500 and left
\* no chat row and no agenda row
C16_Witness ==
  /\ api.pc = "idle"
  /\ api.res = "500 insert_failed"
  /\ RowsOfMessage(chats, ApiMessage) = 0
  /\ agenda = <<>>

C20_OcrNeverThrows ==
  \A call \in ocrCall :
     /\ ~call.out.threw
     /\ call.out.text \in {"", "text"}
     /\ (\/ call.run.empty
         \/ call.mimetype = "application/pdf" /\ call.run.pdfThrows
         \/ call.mimetype # "application/pdf"
              /\ (call.run.noTesseract \/ call.run.recognizeThrows))
        => call.out.text = ""

\* C20 witness: a call on an image whose sharp pipeline and recognize both
\* threw returned the empty string
C20_Witness ==
  \E call \in ocrCall :
     /\ call.mimetype = "image/jpeg"
     /\ ~call.run.empty /\ call.run.sharpThrows /\ ~call.run.noTesseract
     /\ call.run.recognizeThrows
     /\ call.out = [threw |-> FALSE, text |-> ""]

\* ---- claims about clients built concurrently ----------------------------------

\* a client that was built for line l and not torn down
Standing(l) ==
  {c \in ClientIds : /\ clients[c].line = l
                     /\ clients[c].phase \in {"built", "live"}
                     /\ ~clients[c].destroyed}

\* C28: at any time at most one client has been built and not yet torn down
\* for a line.
C28_OneClientPerLine ==
  \A l \in Lines : Cardinality(Standing(l)) <= 1

\* C29: a ready handler that resumes after its client was torn down leaves the
\* registry entry of the line as it is.
C29_StaleReadyHandlerInert ==
  [][\A c \in ClientIds :
        (clients[c].destroyed /\ readyTask[c] /\ ~readyTask'[c])
        => (lines' = lines)]_vars

\* C30: when the auth directory of a line is purged, by the disconnected
\* handler on LOGOUT or by POST /restart, no client built for that line is
\* still standing.
C30_PurgeOnlyWithoutClient ==
  [][\A l \in Lines :
        (\/ restart[l].pc = "closing" /\ restart'[l].pc = "ensure"
         \/ \E c \in ClientIds :
              /\ clients[c].line = l
              /\ discTask[c].pc = "close" /\ discTask'[c].pc = "upsert"
              /\ IsLogout(discTask[c].reason))
        => (\A c \in ClientIds :
              (clients'[c].line = l)
              => (clients'[c].phase = "none" \/ clients'[c].destroyed))]_vars

\* ---- claims about the receipt-text functions ------------------------------------

\* C25: toNumberARS gives the same number again on the string form of its own
\* result: for every raw string with a result, toNumberARS(String(result)) is
\* that result.
C25_NormalizerIdempotent ==
  \A call \in pureCall :
     (call.fn = "toNumberARS" /\ IsFiniteNumber(call.out))
     => (call.again = call.out)

\* the runs of digits of a text: where each starts and how long it is
DigitRuns(s) ==
  {<<i, RunLen(s, i, Digits)>> :
     i \in {k \in 1..Len(s) : IsDigit(s[k]) /\ (k = 1 \/ ~IsDigit(s[k - 1]))}}

\* every number of the text is one token of exactly 22 digits
OnlyLongTokens(s) ==
  /\ DigitRuns(s) # {}
  /\ \A r \in DigitRuns(s) : r[2] = 22
  /\ ~\E i \in 1..Len(s) : s[i] \in Separators

\* every number of the text is a bare four-digit token of 1900 to 2099, and no
\* line has a "$"
OnlyBareYears(s) ==
  /\ DigitRuns(s) # {}
  /\ ~Includes(s, "$")
  /\ \A r \in DigitRuns(s) :
       /\ r[2] = 4
       /\ ValueOf(SubSeq(s, r[1], r[1] + 3)) \in 1900..2099
       /\ (r[1] = 1 \/ s[r[1] - 1] \in Blanks)
       /\ (r[1] + 4 > Len(s) \/ s[r[1] + 4] \in Blanks)

\* C23: a token of 22 digits is never returned as an amount, neither by
\* findBestAmount nor by rule 1 of the pipeline, also on a line with "$" and
\* with leading zeros that bring its value into 50..10,000,000: a text whose
\* only numbers are such tokens gives no amount.
C23_LongTokenNeverAmount ==
  \A c \in pureCall :
     (c.fn \in {"findBestAmount", "safety"} /\ OnlyLongTokens(c.text))
       => c.out = NoNumber

C21_ScoreMonotonic ==
  \A c \in pureCall :
     c.fn = "ScoreOf"
       => \A less \in SUBSET c.signals :
             ScoreOf(less, c.amount, c.matched) <= c.score

C21_Witness ==
  \E c \in pureCall :
     /\ c.fn = "ScoreOf"
     /\ c.signals = ReceiptSignals
     /\ c.amount = Whole(7500)
     /\ c.score > ScoreOf(ReceiptSignals \ {"parties"}, c.amount, c.matched)

\* the banks of the registry that a text names
NamesBank(k, t) ==
  CASE k = 1 -> HasMercadoPago(t) \/ HasWordsApart(t, "mercado", "libre", 0)
    [] k = 2 -> HasWordsApart(t, "naranja", "x", 0)
    [] k = 3 -> HasWholeWord(t, "prex")
    [] k = 4 -> HasWord(t, {"uala"})
    [] k = 5 -> HasWordsApart(t, "banco", "nacion", 1) \/ HasWord(t, {"bna"})
    [] k = 6 -> HasWord(t, {"santander"})
    [] k = 7 -> HasWord(t, {"galicia"})

BanksNamed(t) == {k \in TplIds : NamesBank(k, t)}

\* C22: a receipt with an amount that names exactly one bank of the registry
\* is attributed to that bank; "Comprobante de transferencia", Banco Galicia
\* and "Monto $ 7.500" give provider Galicia, amount 7500 and a score of at
\* least 9.
C22_OneBankIsTheProvider ==
  \A c \in pureCall :
     (/\ c.fn = "scoreReceiptText"
      /\ Cardinality(BanksNamed(c.text)) = 1
      /\ IsFiniteNumber(c.out.amount))
       => (/\ \A k \in BanksNamed(c.text) : c.out.provider = TplProvider(k)
           /\ (c.text = JoinLines(<<ComprobanteDeTransferencia,
                                    <<"banco", " ", "galicia">>,
                                    <<"monto", " ", "$", " ", "7", ".", "5", "0", "0">>>>)
                 => (c.out.amount = Whole(7500) /\ c.out.score >= 9)))

\* the rules of the pipeline that multiply by 1000: the step before each
EscalationSteps == {2, 3, 5}

\* C26: no x1000 escalation of the pipeline (triple-zero hint, Mercado Pago
\* x1000 and its repeat) produces an amount above 10,000,000; an amount whose
\* thousandfold is above 10,000,000 is kept as it is.
C26_EscalationStaysInRange ==
  \A c \in pureCall :
     c.fn = "pipeline"
       => \A i \in EscalationSteps :
             /\ c.steps[i + 1].amount <= 10000000 \/ c.steps[i + 1] = c.steps[i]
             /\ c.steps[i].amount > 10000 => c.steps[i + 1] = c.steps[i]

C26_Witness ==
  \E c \in pureCall :
     /\ c.fn = "pipeline"
     /\ HasMercadoPago(Combined(c.cap, c.ocrText))
     /\ c.steps[2].amount = 75
     /\ c.steps[3].amount = 75000
     /\ c.steps[4].amount = 75000

\* C27: for a Mercado Pago image whose OCR text is empty the pipeline calls
\* the visual fallback, and a reading below 1000 (12) is multiplied by 1000
\* (12000) before the accept gate, which accepts the receipt.
C27_EmptyOcrUsesFallback ==
  \A c \in pureCall :
     (/\ c.fn = "pipeline"
      /\ c.mimetype \in ImageMimes
      /\ c.ocrText = <<>>
      /\ c.reading = 12)
       => (/\ c.fallbackCalled
           /\ c.out.amount = 12000
           /\ c.accepted)


\* C31: every line whose status becomes disconnected, by the client's
\* `disconnected` event or by the health probe, is eventually torn down and
\* recreated; the first stage of that is stated here: a line that shows
\* disconnected later shows restarting.
C31_DisconnectedLeadsToRestart ==
  \A l \in Lines :
     (l \in DOMAIN lines /\ lines[l].status = "disconnected")
       ~> (l \in DOMAIN lines /\ lines[l].status = "restarting")

\* C32: a message id enters the seen set before any row is written for it
\* and never leaves it: the seen set only grows, every row, upload and event
\* belongs to a seen id, and a delivery that repeats an id, also one whose
\* handling lost some of its writes to a failing store, changes no handler
\* and writes nothing.
C32_SeenBeforeWritesAndForGood ==
  /\ [](\A t \in {chats, leads, convs} :
           \A r \in BagToSet(t) : r.message \in seenMsgs)
  /\ [](\A r \in uploads \cup capi : r.message \in seenMsgs)
  /\ [][/\ seenMsgs \subseteq seenMsgs'
        /\ \A m \in MsgIds :
             (h'[m] # h[m] /\ h[m].pc # "idle") => m \in seenMsgs
        /\ (delivered' # delivered)
           => UNCHANGED <<seenMsgs, h, chats, agenda, leads, convs, uploads,
                          capi, storeErrs>>]_vars

\* C32 witness: the message was delivered again and its handling, which
\* ended, lost the chat insert to the failing store after which the lead row
\* was written
C32_Witness ==
  /\ delivered = MaxReplays
  /\ 1 \in seenMsgs
  /\ h[1].pc \in Finished
  /\ storeErrs < MaxStoreErrors
  /\ RowsOfMessage(chats, 1) = 0
  /\ RowsOfMessage(leads, 1) = 1

\* the condition under which rule k of 1) to 5) fires in call c
Fires(k, c) ==
  LET a == c.steps[k].amount
  IN CASE k = 1 -> (~IsFinite(a) \/ a < 1000) /\ IsFinite(c.maxBig)
       [] k = 2 -> IsFinite(a) /\ a < 1000 /\ c.hint
       [] k = 4 -> /\ (~IsFinite(a) \/ a <= 0) /\ c.isMP
                   /\ c.mimetype \in ImageMimes
                   /\ IsFinite(c.reading) /\ c.reading > 0
       [] OTHER -> MP_FORCE_X1000 /\ c.isMP /\ IsFinite(a) /\ a > 0 /\ a < 1000

\* C33: whenever one of the amount-normalization rules fires the score after
\* it is at least 10, no rule lowers the score, and so a receipt on which a
\* rule fired is accepted whenever its final amount is positive, whatever
\* score the text had.
C33_FiredRuleLiftsScore ==
  \A c \in pureCall :
     c.fn = "rules"
     => /\ \A k \in 1..5 :
             /\ Fires(k, c) => c.steps[k + 1].score >= 10
             /\ c.steps[k + 1].score >= c.steps[k].score
        /\ ((\E k \in 1..5 : Fires(k, c))
              /\ IsFinite(c.steps[6].amount) /\ c.steps[6].amount > 0)
           => c.accepted

\* C33 witness: a text that scored 0 without an amount, the visual fallback
\* read the amount, and the receipt was accepted
C33_Witness ==
  \E c \in pureCall :
     /\ c.fn = "rules"
     /\ c.steps[1].score = 0
     /\ ~IsFinite(c.steps[1].amount)
     /\ Fires(4, c)
     /\ c.steps[6].score >= 10
     /\ c.accepted

\* C34: with MP_FORCE_X1000 on, rule 3) multiplies the amount by 1000 exactly
\* when the provider chosen by the scorer is Mercado Pago and the amount is
\* above 0 and below 1000, and leaves the amount as it is in every other
\* case.
C34_MpRuleFollowsProvider ==
  \A c \in pureCall :
     c.fn = "pipeline"
     => LET before == c.steps[3].amount
            after == c.steps[4].amount
        IN IF /\ MP_FORCE_X1000
              /\ c.provider = "Mercado Pago"
              /\ IsFinite(before) /\ before > 0 /\ before < 1000
           THEN after = before * 1000
           ELSE after = before

\* the positive readings of a grid, over every tile and every variant
PositiveReadings(grid) ==
  {grid[i][p] : i \in 1..MaxTiles, p \in Pipelines} \ {NoAmount, 0}

\* C35: on an image the visual fallback returns the maximum positive amount
\* over all tiles of the grid and over the pre-process variants of each tile,
\* or null when no tile yields a positive amount.
C35_FallbackReturnsMaximum ==
  \A c \in pureCall :
     (c.fn = "tryExtractAmountFromImage" /\ c.mimetype \in ImageMimes)
     => IF PositiveReadings(c.grid) = {} THEN c.out = NoAmount
        ELSE /\ c.out \in PositiveReadings(c.grid)
             /\ \A v \in PositiveReadings(c.grid) : v <= c.out

\* the amounts on the lines of a text that match the amountLine of template k
\* or contain "$"
LineAmounts(k, text) ==
  LET lns == SplitLines(text)
  IN Finite({extractAmountFromLine(lns[i]) :
               i \in {x \in 1..Len(lns) : \/ TplAmountLine(k, lns[x])
                                          \/ Includes(lns[x], "$")}})

\* C36: for a matching template entry the parser returns the maximum of the
\* amounts found on the lines of the text that match the entry's amountLine
\* or contain "$", so that of two "$" amounts on different lines the larger
\* one is returned whatever their order.
C36_TemplateReturnsMaximum ==
  \A c \in pureCall :
     (c.fn = "parseByTemplate" /\ c.out.matched)
     => \E k \in TplIds :
           /\ TplProvider(k) = c.out.provider
           /\ LineAmounts(k, c.text) # {}
              => c.out.amount = NumberMax(LineAmounts(k, c.text))

\* the candidates of the two passes of the Amount Finder on a text: the
\* "$"-led numbers (priority 6) and the grouped-or-long numbers (priority 2
\* plus the keyword bonus) of the lines that are not BAD_CTX, kept when
\* they lie in [50, 10,000,000]
PassA(text) ==
  LET lns == SplitLines(text)
  IN {c \in UNION {{[v |-> toFloatFlexible(raw), prio |-> 6] :
                      raw \in RE_CURRENCY_ANY(lns[i])} :
                     i \in {k \in 1..Len(lns) : ~BAD_CTX(lns[k])}} :
        IsFiniteNumber(c.v) /\ AtLeast(c.v, 50) /\ AtMost(c.v, 10000000)}

PassB(text) ==
  LET lns == SplitLines(text)
  IN {c \in UNION {{[v |-> toFloatFlexible(raw), prio |-> 2 + KeyBonus(lns, i)] :
                      raw \in SecondPassRaws(lns[i])} :
                     i \in {k \in 1..Len(lns) : ~BAD_CTX(lns[k])}} :
        IsFiniteNumber(c.v) /\ AtLeast(c.v, 50) /\ AtMost(c.v, 10000000)}

\* C37: the Amount Finder's result, when not null, lies in [50, 10,000,000],
\* is a candidate of a line that is not BAD_CTX, is at least 1000 whenever a
\* kept candidate is, and is the greatest by (priority, then value) of the
\* candidates that remain; the grouped-or-long candidates count only when no
\* "$"-led candidate was kept, and null is returned only without candidates.
C37_BestAmountIsTopCandidate ==
  \A c \in pureCall :
     c.fn = "findBestAmount"
     => LET kept == IF PassA(c.text) # {} THEN PassA(c.text) ELSE PassB(c.text)
            big == {k \in kept : AtLeast(k.v, 1000)}
            remaining == IF big # {} THEN big ELSE kept
        IN IF kept = {} THEN c.out = NoNumber
           ELSE /\ AtLeast(c.out, 50) /\ AtMost(c.out, 10000000)
                /\ big # {} => AtLeast(c.out, 1000)
                /\ \E top \in remaining :
                      /\ top.v = c.out
                      /\ \A o \in remaining :
                            \/ o.prio < top.prio
                            \/ o.prio = top.prio /\ NumberLeq(o.v, top.v)

\* C37 witness: two grouped numbers without "$", the smaller one on the line
\* of a keyword: the smaller one is returned for its priority
C37_Witness ==
  \E c \in pureCall :
     /\ c.fn = "findBestAmount"
     /\ PassA(c.text) = {}
     /\ \E a, b \in PassB(c.text) :
           a.prio > b.prio /\ ~NumberLeq(b.v, a.v) /\ c.out = a.v

\* the registry entries whose test matches a text and that yield an amount
\* above 0 for it
YieldingTpls(text) ==
  LET norm == normTextForTpl(text)
  IN {k \in TplIds :
        /\ TplTest(k, norm)
        /\ IsFiniteNumber(TplBest(k, norm, SplitLines(norm)))
        /\ Positive(TplBest(k, norm, SplitLines(norm)))}

\* C38: the Template Parser returns the provider of the first registry entry,
\* in registry order, whose test matches the text and which yields a positive
\* amount: no earlier entry matches and yields one, and {matched: false} is
\* returned only if no matching entry yields one.
C38_FirstYieldingEntryWins ==
  \A c \in pureCall :
     c.fn = "parseByTemplate"
     => IF YieldingTpls(c.text) = {} THEN ~c.out.matched
        ELSE /\ c.out.matched
             /\ \E k \in YieldingTpls(c.text) :
                   /\ c.out.provider = TplProvider(k)
                   /\ \A e \in YieldingTpls(c.text) : k <= e

\* C38 witness: a text that names Mercado Pago and Galicia with an amount is
\* attributed to Mercado Pago, the earlier entry
C38_Witness ==
  \E c \in pureCall :
     /\ c.fn = "parseByTemplate"
     /\ {1, 7} \subseteq YieldingTpls(c.text)
     /\ c.out.matched
     /\ c.out.provider = "Mercado Pago"
====
